---- MODULE Spec2Model ----
(***************************************************************************)
(* Model of the event dispatcher (core/src/variant_handler.rs), the Lua    *)
(* callback bus (core/src/lua.rs) and the subscription methods of the      *)
(* script-facing bot object (core/src/types/bot.rs).                       *)
(*                                                                         *)
(* Conventions.                                                            *)
(*  - A Rust HashMap is a TLA+ function whose DOMAIN is the set of keys    *)
(*    present; a Vec is a sequence (1-based here, 0-based in the source).  *)
(*  - A text block is kept in split form: a sequence of lines, each line   *)
(*    the sequence of its '|'-separated segments, so `split('|')` is the   *)
(*    line itself and `join("|")` of a slice is that slice.                *)
(*  - std::sync::Mutex: `lock()` waits while another thread holds the      *)
(*    mutex (the action is not enabled) and never returns when the calling *)
(*    thread already holds it; on the threaded targets this program builds *)
(*    for, that second case is a self-deadlock.                            *)
(*  - A panic (unwrap/expect/index on a missing value) ends the thread.    *)
(***************************************************************************)
EXTENDS Integers, Sequences, FiniteSets, TLC

VARIABLES
    callbacks,   \* bot.scripting.callbacks : event name -> Vec<LuaCallback>
    cbLock,      \* holder of the bot.scripting.callbacks mutex
    luaReg,      \* registry keys currently retained by the Lua interpreter
    nextKey,     \* number of registry keys created so far
    players,     \* bot.world.players : net id -> Player
    plLock,      \* holder of the bot.world.players mutex
    netId,       \* bot.runtime net id
    userId,      \* bot.runtime user id
    logs,        \* bot.runtime log buffer
    pc,          \* per thread: position in handle / invoke_callbacks
    hframe,      \* per thread: locals of handle
    iframe,      \* per thread: locals of invoke_callbacks
    sframe,      \* per thread: the subscription method a script is calling
    fired,       \* history: key of a once-callback -> its event and the calls made to it
    file,        \* the file "items.dat" of the working directory: <<>> or <<content>>
    itemDb,      \* bot.world.item_database
    peerStatus,  \* bot.peer_status
    redirecting, \* bot.runtime redirecting flag
    position,    \* bot.movement position
    auth,        \* bot.auth: server_data and login_info
    held,        \* holder of each of the other session locks
    worldName,   \* bot.world.data.name ("EXIT": not in a world)
    obs,         \* the last non-blocking read: what was read and what it returned
    http,        \* the HTTP handler of an action request
    workers,     \* the threads spawned by the HTTP handlers
    gems,        \* bot.inventory gem counter
    deltas,      \* history: the deltas of the "OnSetBux" events handled
    dialogCb,    \* bot.temporary_data.dialog_callback: <<>> or <<handler>>
    pkts,        \* the GamePacket values alive: handle -> NetGamePacketData
    passed,      \* the handle FromLua gave to sendGamePacket (0: none)
    readAt,      \* history: the original as it was when FromLua read it
    fnArg,       \* the argument of the function under evaluation
    fnRes,       \* <<>> or what the function has computed so far
    bots,        \* state.bots of the HTTP front end: the ids registered
    issued,      \* number of ids Uuid::new_v4 has returned
    sessions,    \* per bot ever created: the actions asked of it
    rq,          \* per HTTP handler task: its request, position and response
    tankIdName,  \* bot.auth login_info.tank_id_name
    view,        \* per caller: the read view it is in and the locks it has taken
    dbReaders    \* the callers that hold bot.world.item_database for reading

\* the session state outside the callback bus and the player registry
sessVars == <<file, itemDb, peerStatus, redirecting, position, auth, held>>

\* the bus, the player registry and the threads that run handle and scripts
coreVars == <<callbacks, cbLock, luaReg, nextKey, players, plLock, netId, userId,
              logs, pc, hframe, iframe, sframe, fired>>

\* the state of the HTTP front end and of what it reads
apiVars == <<worldName, obs, http, workers>>

\* the gem counter and the native dialog slot
gameVars == <<gems, deltas, dialogCb>>

\* the packet objects of the scripting interface
pktVars == <<pkts, passed, readAt>>

\* the evaluation of parse_and_store_as_map and variant_list_to_lua_table
pureVars == <<fnArg, fnRes>>

\* the session registry of the HTTP front end
regVars == <<bots, issued, sessions, rq>>

\* the name the server gave the account
idVars == <<tankIdName>>

\* the read views of the Host Bridge and of the HTTP handlers
viewVars == <<view, dbReaders>>

extVars == <<gameVars, pktVars, pureVars, regVars, idVars, viewVars>>

vars == <<coreVars, sessVars, apiVars, extVars>>

\* ------------------------------------------------------------ bounds ----
MaxKeys == 2
MaxLogs == 1
FiredCap == 2

\* --------------------------------------------------------- universes ----
Threads == {"net", "aux"}
None == "none"
Events == {"onVariant", "onChat", "onPlayerJoin", "onPlayerLeave"}

\* ------------------------------------------------------ map helpers ----
EmptyMap == [x \in {} |-> <<>>]

MapRemove(m, k) == [x \in (DOMAIN m) \ {k} |-> m[x]]

MapInsert(m, k, v) == [x \in (DOMAIN m) \cup {k} |-> IF x = k THEN v ELSE m[x]]

\* variant: the new callback is put in front of the list
EntryPushFront(cbs, event, cb) ==
    MapInsert(cbs, event,
              <<cb>> \o (IF event \in DOMAIN cbs THEN cbs[event] ELSE <<>>))

\* cbs.entry(event).or_default().push(cb)
EntryPush(cbs, event, cb) ==
    MapInsert(cbs, event,
              Append(IF event \in DOMAIN cbs THEN cbs[event] ELSE <<>>, cb))

LuaCallback(key, once) == [key |-> key, once |-> once]

\* Vec::remove(i), i counted from 1
VecRemove(v, i) == SubSeq(v, 1, i - 1) \o SubSeq(v, i + 1, Len(v))

\* variant: the indices are removed front to back
RECURSIVE RemoveFwd(_, _)
RemoveFwd(v, to_remove) ==
    IF to_remove = <<>> THEN v
    ELSE RemoveFwd(VecRemove(v, Head(to_remove)), Tail(to_remove))

\* for i in to_remove.into_iter().rev() { callbacks.remove(i) }
RECURSIVE RemoveRev(_, _)
RemoveRev(v, to_remove) ==
    IF to_remove = <<>> THEN v
    ELSE RemoveRev(VecRemove(v, to_remove[Len(to_remove)]),
                   SubSeq(to_remove, 1, Len(to_remove) - 1))

\* variant: the removed callbacks keep their registry keys
RemovedKeysNone(v, to_remove) == {}

\* the registry keys released by that loop
RemovedKeys(v, to_remove) == {v[to_remove[j]].key : j \in 1..Len(to_remove)}

\* variant: an existing record is kept
PlayersInsertIfAbsent(pl, p) ==
    IF p.net_id \in DOMAIN pl THEN pl ELSE MapInsert(pl, p.net_id, p)

\* players.insert(player.net_id, player)
PlayersInsert(pl, p) == MapInsert(pl, p.net_id, p)

\* variant: the record is left in place
PlayersRemoveNothing(pl, net_id) == pl

\* players.remove(&net_id)
PlayersRemove(pl, net_id) == MapRemove(pl, net_id)

\* variant: an emptied list stays under its key
PruneNever(cbs, event) == cbs

\* if callbacks.is_empty() { cbs.remove(event) }
PruneEmpty(cbs, event) ==
    IF cbs[event] = <<>> THEN MapRemove(cbs, event) ELSE cbs

\* variant: any subscriber of any event counts
has_callbacks_any(cbs, event) == DOMAIN cbs # {}

\* has_callbacks: cbs.get(event).is_some_and(|v| !v.is_empty())
has_callbacks(cbs, event) == event \in DOMAIN cbs /\ cbs[event] # <<>>

KeysOf(v) == {v[j].key : j \in 1..Len(v)}

AllKeys(cbs) == UNION {KeysOf(cbs[e]) : e \in DOMAIN cbs}

\* ------------------------------------------------- typed arguments ----
VString(s) == [tag |-> "String", val |-> s]
VSigned(n) == [tag |-> "Signed", val |-> n]
VUnsigned(n) == [tag |-> "Unsigned", val |-> n]
VVec2(x, y) == [tag |-> "Vec2", val |-> <<x, y>>]

\* VariantList::get(i), i counted from 0: Some exactly when i is below the length
GetIsSome(variant, i) == i < Len(variant)

Get(variant, i) == variant[i + 1]

\* decimal text accepted by str::parse::<u32>()
NumStr == <<"0", "1", "2", "3">>

\* value.parse::<u32>() on a map value (the segments after the key): Ok or Err
ParseOk(v) == Len(v) = 1 /\ \E n \in 1..Len(NumStr) : NumStr[n] = v[1]

ParseU32(v) == (CHOOSE n \in 1..Len(NumStr) : NumStr[n] = v[1]) - 1

\* parse_and_store_as_map: later lines overwrite earlier ones
RECURSIVE ParseLines(_, _)
ParseLines(lines, map) ==
    IF lines = <<>> THEN map
    ELSE LET parts == Head(lines)
         IN  ParseLines(Tail(lines),
                        IF Len(parts) >= 2
                        THEN MapInsert(map, parts[1], SubSeq(parts, 2, Len(parts)))
                        ELSE map)

parse_and_store_as_map(input) == ParseLines(input, EmptyMap)

\* data.get(k).unwrap_or(default)
GetOr(data, k, default) == IF k \in DOMAIN data THEN data[k] ELSE default

\* keys the Player struct expression indexes with data[...]
RequiredKeys == {"netID", "eid", "ip", "colrect", "mstate", "userID", "name", "country"}

\* the Player struct expression of the OnSpawn arm evaluates without a panic
PlayerOk(data) ==
    /\ RequiredKeys \subseteq DOMAIN data
    /\ ParseOk(data["netID"])
    /\ ParseOk(data["mstate"])
    /\ ParseOk(data["userID"])
    /\ ParseOk(GetOr(data, "invis", <<"0">>))
    /\ ("posXY" \in DOMAIN data =>
          /\ Len(data["posXY"]) >= 2
          /\ \A j \in 1..Len(data["posXY"]) : ParseOk(<<data["posXY"][j]>>))

\* the Player it builds
PlayerOf(data) ==
    [net_id    |-> ParseU32(data["netID"]),
     user_id   |-> ParseU32(data["userID"]),
     m_state   |-> ParseU32(data["mstate"]),
     invisible |-> ParseU32(GetOr(data, "invis", <<"0">>)) # 0,
     name      |-> data["name"],
     country   |-> data["country"],
     position  |-> IF "posXY" \in DOMAIN data
                   THEN <<ParseU32(<<data["posXY"][1]>>), ParseU32(<<data["posXY"][2]>>)>>
                   ELSE <<0, 0>>]

\* the LuaPlayer handed to the onPlayerJoin subscribers
LuaPlayer(p) ==
    [name |-> p.name, net_id |-> p.net_id, user_id |-> p.user_id,
     country |-> p.country, pos_x |-> p.position[1], pos_y |-> p.position[2],
     invisible |-> p.invisible, is_mod |-> (p.m_state = 1)]

\* variant_list_to_lua_table: element i (from 0) goes to key i + 1; setting a
\* key to nil leaves it absent
ToLuaIsNil(v) == v.tag \notin {"String", "Float", "Unsigned", "Signed", "Vec2", "Vec3"}

\* the Lua value stored for an element: text and numbers as they are, a
\* vector as a table of its coordinates
ToLua(v) ==
    CASE v.tag = "Vec2" -> [x |-> v.val[1], y |-> v.val[2]]
      [] v.tag = "Vec3" -> [x |-> v.val[1], y |-> v.val[2], z |-> v.val[3]]
      [] OTHER -> v.val

RECURSIVE TableFrom(_, _, _)
TableFrom(variant, i, table) ==
    IF ~GetIsSome(variant, i) THEN table
    ELSE TableFrom(variant, i + 1,
                   IF ToLuaIsNil(Get(variant, i)) THEN table
                   ELSE MapInsert(table, i + 1, ToLua(Get(variant, i))))

\* variant: the event name is left out of the table
variant_list_to_lua_table_tail(variant) == TableFrom(variant, 1, EmptyMap)

variant_list_to_lua_table(variant) == TableFrom(variant, 0, EmptyMap)

\* ------------------------------------------------------------ inputs ----
NetIdStrs == {"1", "2"}
Names == {"a"}

CommonLines ==
    << <<"spawn", "avatar">>, <<"userID", "3">>, <<"eid", "">>, <<"ip", "">>,
       <<"colrect", "0", "0", "20", "30">>, <<"country", "us">> >>

\* (mstate line, optional invis line)
FlagVariants == { << <<"mstate", "0">> >>,
                  << <<"mstate", "1">> >>,
                  << <<"mstate", "0">>, <<"invis", "1">> >> }

OtherSpawnBlocks ==
    {CommonLines \o << <<"netID", id>>, <<"name", nm>> >> \o fl :
        id \in NetIdStrs, nm \in Names, fl \in FlagVariants}

SelfSpawnBlocks ==
    {CommonLines \o << <<"netID", "1">>, <<"type", "local">> >>}

\* the bot's own record without a user id, and with one that is not a number
ShortSelfSpawnBlocks ==
    { << <<"spawn", "avatar">>, <<"netID", "2">>, <<"type", "local">> >>,
      << <<"spawn", "avatar">>, <<"netID", "2">>, <<"userID", "x">>,
         <<"type", "local">> >> }

\* a block without a net id
BrokenSpawnBlocks ==
    { CommonLines \o << <<"name", "a">>, <<"mstate", "0">> >> }

RemoveBlocks ==
    {<< <<"netID", id>> >> : id \in NetIdStrs} \cup { << <<"netID", "x">> >> }

\* ----------------------------------------------------- session state ----
\* the session locks other than callbacks and players
LockNames == {"server_data", "login_info", "item_database", "peer_status",
              "world_data", "dialog_callback"}

ItemDatabase(content) == [items |-> content]

ServerData(server, port) == [server |-> server, port |-> port]

LoginInfo(token, user, door_id, uuid, aat) ==
    [token |-> token, user |-> user, door_id |-> door_id, uuid |-> uuid,
     aat |-> aat]

\* busy: whether a lock the read needed was held by someone else
IdleObs == [op |-> None, busy |-> FALSE, res |-> None, fanout |-> FALSE]

\* the tasks that run the handlers of the session registry
Tasks == {"h1", "h2"}

\* who takes the session locks: the threads and the HTTP handler of a read
Callers == Threads \cup {"web"}

\* op: the view a caller is in; k: how many of its locks it has taken
IdleView == [op |-> None, k |-> 0]

\* bot: the Arc<Bot> the handler cloned out of the registry, <<>> or <<id>>
IdleRq == [pc |-> "idle", kind |-> None, body |-> None, id |-> None,
           bot |-> <<>>, resp |-> <<>>]

\* resp: <<>> until the handler has returned its response
IdleHttp == [pc |-> "idle", req |-> [kind |-> None, id |-> None, dir |-> None],
             resp |-> <<>>]

\* ------------------------------------------------------------ frames ----
\* old: what players.insert / players.remove found under the key
\* cmp: how the checksum comparison of a logon-accept event ended
\* cb: the handler cloned out of the dialog slot
\* before: history, what the event found when its handling began
IdleH == [variant |-> <<>>, fanouts |-> <<>>, out |-> <<>>, player |-> <<>>,
          old |-> <<>>, cmp |-> None, cb |-> <<>>, before |-> <<>>]
\* had, snap, called, returned: the registry as invoke_callbacks found it, the
\* calls it made and whether it has returned
IdleI == [event |-> None, args |-> <<>>, ret |-> None, i |-> 0,
          to_remove |-> <<>>, called |-> <<>>, had |-> FALSE, snap |-> <<>>,
          returned |-> FALSE]
\* hit: whether the method found something to remove
IdleS == [op |-> None, event |-> None, key |-> 0, hit |-> FALSE]

NewI(event, args, ret) == [IdleI EXCEPT !.event = event, !.args = args, !.ret = ret]

\* everything but the subscriptions, as Bot::new leaves it
InitRest ==
    /\ cbLock = None
    /\ players = EmptyMap
    /\ plLock = None
    /\ netId = 0
    /\ userId = 0
    /\ logs = <<>>
    /\ pc = [t \in Threads |-> "idle"]
    /\ hframe = [t \in Threads |-> IdleH]
    /\ iframe = [t \in Threads |-> IdleI]
    /\ sframe = [t \in Threads |-> IdleS]
    /\ file = <<>>
    /\ itemDb = ItemDatabase(<<>>)
    /\ peerStatus = "FetchingServerData"
    /\ redirecting = FALSE
    /\ position = <<0, 0>>
    /\ auth = [server_data |-> <<ServerData("", 0)>>,
               login_info |-> <<LoginInfo("", "", "", "", "")>>]
    /\ held = [l \in LockNames |-> None]
    /\ worldName = "EXIT"
    /\ obs = IdleObs
    /\ http = IdleHttp
    /\ workers = <<>>
    /\ gems = 0
    /\ deltas = <<>>
    /\ dialogCb = <<>>
    /\ pkts = EmptyMap
    /\ passed = 0
    /\ readAt = <<>>
    /\ bots = {}
    /\ issued = 0
    /\ sessions = <<>>
    /\ rq = [h \in Tasks |-> IdleRq]
    /\ tankIdName = ""
    /\ view = [c \in Callers |-> IdleView]
    /\ dbReaders = {}

\* no script has run: nothing is subscribed
InitRegistry ==
    /\ callbacks = EmptyMap
    /\ luaReg = {}
    /\ nextKey = 0
    /\ fired = EmptyMap

InitProgram ==
    /\ InitRegistry
    /\ InitRest

\* the state after construction: no function is under evaluation
Init ==
    /\ InitProgram
    /\ fnArg = <<>>
    /\ fnRes = <<>>


\* ------------------------------------- subscription methods (bot.rs) ----
\* history entry of a new once-callback
Track(fd, key, event, isOnce) ==
    IF isOnce THEN MapInsert(fd, key, [event |-> event, n |-> 0, by |-> None]) ELSE fd

\* The script reaches bot:on / bot:once: create_registry_value runs first,
\* then the method waits for the callbacks mutex.
CallOn(t, event, isOnce) ==
    /\ pc[t] = "idle"
    /\ nextKey < MaxKeys
    /\ nextKey' = nextKey + 1
    /\ luaReg' = luaReg \cup {nextKey + 1}
    /\ fired' = Track(fired, nextKey + 1, event, isOnce)
    /\ sframe' = [sframe EXCEPT ![t] = [IdleS EXCEPT
                                           !.op = IF isOnce THEN "once" ELSE "on",
                                           !.event = event, !.key = nextKey + 1]]
    /\ pc' = [pc EXCEPT ![t] = "script"]
    /\ UNCHANGED <<callbacks, cbLock, players, plLock, netId, userId, logs,
                   hframe, iframe>>
    /\ UNCHANGED sessVars
    /\ UNCHANGED apiVars
    /\ UNCHANGED extVars

\* The script reaches bot:removeListener(event) / bot:removeAllListeners().
CallRemove(t, op, event) ==
    /\ pc[t] = "idle"
    /\ \/ op = "removeListener" /\ event \in Events
       \/ op = "removeAllListeners" /\ event = None
    /\ sframe' = [sframe EXCEPT ![t] = [IdleS EXCEPT !.op = op, !.event = event]]
    /\ pc' = [pc EXCEPT ![t] = "script"]
    /\ UNCHANGED <<callbacks, cbLock, luaReg, nextKey, players, plLock, netId,
                   userId, logs, hframe, iframe, fired>>
    /\ UNCHANGED sessVars
    /\ UNCHANGED apiVars
    /\ UNCHANGED extVars

\* bodies of the four methods once the mutex is held
on(cbs, event, key) == EntryPush(cbs, event, LuaCallback(key, FALSE))

once(cbs, event, key) == EntryPush(cbs, event, LuaCallback(key, TRUE))

\* variant: every event is dropped
removeListenerClears(cbs, event) == EmptyMap

removeListener(cbs, event) == MapRemove(cbs, event)

removeAllListeners(cbs) == EmptyMap

MethodBody(cbs, f) ==
    CASE f.op = "on" -> on(cbs, f.event, f.key)
      [] f.op = "once" -> once(cbs, f.event, f.key)
      [] f.op = "removeListener" -> removeListener(cbs, f.event)
      [] f.op = "removeAllListeners" -> removeAllListeners(cbs)

\* registry keys the method releases with remove_registry_value
MethodReleased(cbs, f) ==
    CASE f.op = "removeListener" ->
            IF f.event \in DOMAIN cbs THEN KeysOf(cbs[f.event]) ELSE {}
      [] f.op = "removeAllListeners" -> AllKeys(cbs)
      [] OTHER -> {}

\* variant: a once-callback is not marked for removal
AfterCallKeeps(f, cb) == [f EXCEPT !.i = @ + 1]

\* if cb.once { to_remove.push(i) } and the loop's step to the next element
AfterCall(f, cb) ==
    [f EXCEPT !.to_remove = IF cb.once THEN Append(@, f.i) ELSE @,
              !.i = @ + 1]

\* variant: the first error ends the loop
AfterErrBreaks(f, cb) ==
    [f EXCEPT !.to_remove = IF cb.once THEN Append(@, f.i) ELSE @,
              !.i = Len(f.snap) + 1]

\* if let Err(e) = func.call(..) { push_log(..) }: the error is consumed here
\* and the loop body goes on
AfterErr(f, cb) == AfterCall(f, cb)

\* variant: a script's method runs its body without waiting for the mutex
MethodRunNoWait(t) ==
    /\ pc[t] = "script"
    /\ callbacks' = MethodBody(callbacks, sframe[t])
    /\ luaReg' = luaReg \ MethodReleased(callbacks, sframe[t])
    /\ IF pc[t] = "script"
       THEN /\ pc' = [pc EXCEPT ![t] = "script_ret"]
            /\ sframe' = [sframe EXCEPT ![t].hit =
                             MethodReleased(callbacks, sframe[t]) # {}]
            /\ UNCHANGED iframe
       ELSE /\ pc' = [pc EXCEPT ![t] = "inv_loop"]
            /\ sframe' = [sframe EXCEPT ![t] = IdleS]
            /\ iframe' = [iframe EXCEPT ![t] =
                             AfterCall(iframe[t], iframe[t].snap[iframe[t].i])]
    /\ UNCHANGED <<cbLock, nextKey, players, plLock, netId, userId, logs,
                   hframe, fired>>
    /\ UNCHANGED sessVars
    /\ UNCHANGED apiVars
    /\ UNCHANGED extVars

\* The method gets the mutex, runs its body and drops the guard.  A method
\* called from inside a callback returns into the callback, which then
\* returns to the loop of invoke_callbacks.
MethodRun(t) ==
    /\ pc[t] \in {"script", "cb_script"}
    /\ cbLock = None
    /\ callbacks' = MethodBody(callbacks, sframe[t])
    /\ luaReg' = luaReg \ MethodReleased(callbacks, sframe[t])
    /\ IF pc[t] = "script"
       THEN /\ pc' = [pc EXCEPT ![t] = "script_ret"]
            /\ sframe' = [sframe EXCEPT ![t].hit =
                             MethodReleased(callbacks, sframe[t]) # {}]
            /\ UNCHANGED iframe
       ELSE /\ pc' = [pc EXCEPT ![t] = "inv_loop"]
            /\ sframe' = [sframe EXCEPT ![t] = IdleS]
            /\ iframe' = [iframe EXCEPT ![t] =
                             AfterCall(iframe[t], iframe[t].snap[iframe[t].i])]
    /\ UNCHANGED <<cbLock, nextKey, players, plLock, netId, userId, logs,
                   hframe, fired>>
    /\ UNCHANGED sessVars
    /\ UNCHANGED apiVars
    /\ UNCHANGED extVars

\* the method returns Ok(()) to the script
MethodReturn(t) ==
    /\ pc[t] = "script_ret"
    /\ pc' = [pc EXCEPT ![t] = "idle"]
    /\ sframe' = [sframe EXCEPT ![t] = IdleS]
    /\ UNCHANGED <<callbacks, cbLock, luaReg, nextKey, players, plLock, netId,
                   userId, logs, hframe, iframe, fired>>
    /\ UNCHANGED sessVars
    /\ UNCHANGED apiVars
    /\ UNCHANGED extVars

\* ------------------------------------------- invoke_callbacks (lua.rs) ----
\* let mut cbs = bot.scripting.callbacks.lock().unwrap();
InvokeLock(t) ==
    /\ pc[t] = "inv_lock"
    /\ cbLock = None
    /\ cbLock' = t
    /\ iframe' = [iframe EXCEPT ![t] =
                     [iframe[t] EXCEPT
                         !.i = 1,
                         !.had = has_callbacks(callbacks, iframe[t].event),
                         !.snap = IF iframe[t].event \in DOMAIN callbacks
                                  THEN callbacks[iframe[t].event] ELSE <<>>]]
    /\ pc' = [pc EXCEPT ![t] = "inv_loop"]
    /\ UNCHANGED <<callbacks, luaReg, nextKey, players, plLock, netId, userId,
                   logs, hframe, sframe, fired>>
    /\ UNCHANGED sessVars
    /\ UNCHANGED apiVars
    /\ UNCHANGED extVars

\* what a Lua callback does when called: return, raise an error, or call one
\* of the subscription methods of its own bot (here: for the event it serves)
Reentries(event) ==
    {[op |-> o, event |-> event] : o \in {"on", "once", "removeListener"}}
    \cup {[op |-> "removeAllListeners", event |-> None]}

\* the call count of a once-callback, kept up to FiredCap, and the caller
Bump(fd, cb, t) ==
    IF cb.once /\ fd[cb.key].n < FiredCap
    THEN [fd EXCEPT ![cb.key].n = @ + 1, ![cb.key].by = t] ELSE fd

\* history: the call made to cb and how it ended
\* bot.world:getPlayers(): the LuaPlayer of every entry (the table lists them
\* in the map's iteration order, which is left open here)
getPlayers(pl) == {LuaPlayer(pl[id]) : id \in DOMAIN pl}

\* bot.pos: LuaPosition(pos.0, pos.1)
LuaPosition(pos) == [x |-> pos[1], y |-> pos[2]]

\* seen: what the callback gets when it reads bot.world:getPlayers() and
\* bot.pos during the call
Called(f, cb, res) ==
    [f EXCEPT !.called = Append(@, [key |-> cb.key, args |-> f.args, res |-> res,
                                    seen |-> [players |-> getPlayers(players),
                                              pos |-> LuaPosition(position)]])]

\* bot.runtime.push_log(format!("[Lua] Error in '{}' callback: {}", event, e))
push_log(lg, event) == Append(lg, event)

\* one iteration of `for (i, cb) in callbacks.iter().enumerate()`
InvokeCall(t) ==
    LET f  == iframe[t]
        cb == callbacks[f.event][f.i]
    IN
    /\ pc[t] = "inv_loop"
    /\ view[t].op = None
    /\ f.event \in DOMAIN callbacks
    /\ f.i <= Len(callbacks[f.event])
    /\ IF cb.key \notin luaReg
       THEN \* registry_value failed: the element is skipped
            /\ iframe' = [iframe EXCEPT ![t] = [f EXCEPT !.i = @ + 1]]
            /\ UNCHANGED <<logs, fired, pc, sframe>>
       ELSE
         /\ fired' = Bump(fired, cb, t)
         /\ \/ \* func.call returned Ok
               /\ iframe' = [iframe EXCEPT ![t] = AfterCall(Called(f, cb, "ok"), cb)]
               /\ UNCHANGED <<logs, pc, sframe>>
            \/ \* func.call returned Err(e)
               /\ Len(logs) < MaxLogs
               /\ logs' = push_log(logs, f.event)
               /\ iframe' = [iframe EXCEPT ![t] = AfterErr(Called(f, cb, "err"), cb)]
               /\ UNCHANGED <<pc, sframe>>
            \/ \* the callback calls bot:removeListener / removeAllListeners
               \E r \in Reentries(f.event) :
                 /\ r.op \in {"removeListener", "removeAllListeners"}
                 /\ iframe' = [iframe EXCEPT ![t] = Called(f, cb, "reenter")]
                 /\ sframe' = [sframe EXCEPT ![t] =
                                  [IdleS EXCEPT !.op = r.op, !.event = r.event]]
                 /\ pc' = [pc EXCEPT ![t] = "cb_script"]
                 /\ UNCHANGED logs
    /\ UNCHANGED <<callbacks, cbLock, luaReg, nextKey, players, plLock, netId,
                   userId, hframe>>
    /\ UNCHANGED sessVars
    /\ UNCHANGED apiVars
    /\ UNCHANGED extVars

\* the callback calls bot:on / bot:once (a registry value is created first)
InvokeCallSubscribes(t) ==
    LET f  == iframe[t]
        cb == callbacks[f.event][f.i]
    IN
    /\ pc[t] = "inv_loop"
    /\ view[t].op = None
    /\ f.event \in DOMAIN callbacks
    /\ f.i <= Len(callbacks[f.event])
    /\ cb.key \in luaReg
    /\ nextKey < MaxKeys
    /\ \E r \in Reentries(f.event) :
         /\ r.op \in {"on", "once"}
         /\ sframe' = [sframe EXCEPT ![t] =
                          [IdleS EXCEPT !.op = r.op, !.event = r.event,
                                        !.key = nextKey + 1]]
         /\ fired' = Track(Bump(fired, cb, t), nextKey + 1, r.event, r.op = "once")
    /\ nextKey' = nextKey + 1
    /\ luaReg' = luaReg \cup {nextKey + 1}
    /\ iframe' = [iframe EXCEPT ![t] = Called(f, cb, "reenter")]
    /\ pc' = [pc EXCEPT ![t] = "cb_script"]
    /\ UNCHANGED <<callbacks, cbLock, players, plLock, netId, userId, logs, hframe>>
    /\ UNCHANGED sessVars
    /\ UNCHANGED apiVars
    /\ UNCHANGED extVars

\* variant: a list that held a once-callback is dropped whole
InvokeFinishDropsList(t) ==
    LET f == iframe[t] IN
    /\ pc[t] = "inv_loop"
    /\ view[t].op = None
    /\ f.event \in DOMAIN callbacks => f.i > Len(callbacks[f.event])
    /\ IF f.event \in DOMAIN callbacks
       THEN /\ callbacks' = IF f.to_remove = <<>> THEN callbacks
                              ELSE MapRemove(callbacks, f.event)
            /\ luaReg' = IF f.to_remove = <<>> THEN luaReg
                         ELSE luaReg \ KeysOf(callbacks[f.event])
       ELSE UNCHANGED <<callbacks, luaReg>>
    /\ cbLock' = None
    /\ iframe' = [iframe EXCEPT ![t] = [f EXCEPT !.returned = TRUE]]
    /\ pc' = [pc EXCEPT ![t] = f.ret]
    /\ UNCHANGED <<nextKey, players, plLock, netId, userId, logs, hframe,
                   sframe, fired>>
    /\ UNCHANGED sessVars
    /\ UNCHANGED apiVars
    /\ UNCHANGED extVars

\* the loop is over: remove the once-callbacks, prune, drop the guard, return
InvokeFinish(t) ==
    LET f == iframe[t] IN
    /\ pc[t] = "inv_loop"
    /\ view[t].op = None
    /\ f.event \in DOMAIN callbacks => f.i > Len(callbacks[f.event])
    /\ IF f.event \in DOMAIN callbacks
       THEN /\ callbacks' = PruneEmpty(
                   MapInsert(callbacks, f.event,
                             RemoveRev(callbacks[f.event], f.to_remove)),
                   f.event)
            /\ luaReg' = luaReg \ RemovedKeys(callbacks[f.event], f.to_remove)
       ELSE UNCHANGED <<callbacks, luaReg>>
    /\ cbLock' = None
    /\ iframe' = [iframe EXCEPT ![t] = [f EXCEPT !.returned = TRUE]]
    /\ pc' = [pc EXCEPT ![t] = f.ret]
    /\ UNCHANGED <<nextKey, players, plLock, netId, userId, logs, hframe,
                   sframe, fired>>
    /\ UNCHANGED sessVars
    /\ UNCHANGED apiVars
    /\ UNCHANGED extVars

\* ------------------------------------------ handle (variant_handler.rs) ----
\* variant.get(i).unwrap().as_<tag>() succeeds
ArgOk(variant, i, tag) == GetIsSome(variant, i) /\ Get(variant, i).tag = tag

FunctionCall(variant) == Get(variant, 0).val

\* the names with an arm of their own in the match
HandledNames ==
    {"OnSendToServer", "OnSuperMainStartAcceptLogonHrdxs47254722215a",
     "OnSetPos", "OnTalkBubble", "OnConsoleMessage", "OnSetBux", "SetHasGrowID",
     "OnRemove", "OnSpawn", "OnDialogRequest"}

\* the part of the session state an event may find changed by its own arm
SessionNow ==
    [auth |-> auth, redirecting |-> redirecting, netId |-> netId, userId |-> userId,
     phase |-> peerStatus]

\* an unwrap, expect or index fails: the thread unwinds out of handle and ends
Panic(t) ==
    /\ pc' = [pc EXCEPT ![t] = "panicked"]
    /\ hframe' = [hframe EXCEPT ![t] = [IdleH EXCEPT !.before = hframe[t].before]]
    /\ iframe' = [iframe EXCEPT ![t] = IdleI]

\* the call of invoke_callbacks(bot, event, args), to continue at ret
CallInvoke(t, h, event, args, ret) ==
    /\ hframe' = [hframe EXCEPT ![t] =
                     [h EXCEPT !.fanouts = Append(@, [event |-> event, args |-> args])]]
    /\ iframe' = [iframe EXCEPT ![t] = NewI(event, args, ret)]
    /\ pc' = [pc EXCEPT ![t] = "inv_lock"]

\* a frame arrives: the list is decoded and its first element read as the name
Dispatch(t, variant) ==
    /\ pc[t] = "idle"
    /\ IF ArgOk(variant, 0, "String")
       THEN /\ pc' = [pc EXCEPT ![t] = "tap"]
            /\ hframe' = [hframe EXCEPT ![t] = [IdleH EXCEPT !.variant = variant,
                                                             !.before = <<SessionNow>>]]
            /\ iframe' = [iframe EXCEPT ![t] = IdleI]
       ELSE Panic(t)
    /\ UNCHANGED <<callbacks, cbLock, luaReg, nextKey, players, plLock, netId,
                   userId, logs, sframe, fired>>
    /\ UNCHANGED sessVars
    /\ UNCHANGED apiVars
    /\ UNCHANGED extVars

\* if lua::has_callbacks(bot, "onVariant") { ... invoke_callbacks(.., table) }
TapGate(t) ==
    /\ pc[t] = "tap"
    /\ cbLock = None
    /\ IF has_callbacks(callbacks, "onVariant")
       THEN CallInvoke(t, hframe[t], "onVariant",
                       variant_list_to_lua_table(hframe[t].variant), "match")
       ELSE /\ pc' = [pc EXCEPT ![t] = "match"]
            /\ UNCHANGED <<hframe, iframe>>
    /\ UNCHANGED <<callbacks, cbLock, luaReg, nextKey, players, plLock, netId,
                   userId, logs, sframe, fired>>
    /\ UNCHANGED sessVars
    /\ UNCHANGED apiVars
    /\ UNCHANGED extVars

\* "OnTalkBubble"
ArmTalkBubble(t) ==
    LET v == hframe[t].variant IN
    /\ pc[t] = "match"
    /\ FunctionCall(v) = "OnTalkBubble"
    /\ IF ArgOk(v, 1, "Signed") /\ ArgOk(v, 2, "String")
       THEN CallInvoke(t, hframe[t], "onChat",
                       <<Get(v, 1).val, Get(v, 2).val>>, "done")
       ELSE Panic(t)
    /\ UNCHANGED <<callbacks, cbLock, luaReg, nextKey, players, plLock, netId,
                   userId, logs, sframe, fired>>
    /\ UNCHANGED sessVars
    /\ UNCHANGED apiVars
    /\ UNCHANGED extVars

\* "OnConsoleMessage": the text goes to the onConsole subscribers
ArmConsole(t) ==
    LET v == hframe[t].variant IN
    /\ pc[t] = "match"
    /\ FunctionCall(v) = "OnConsoleMessage"
    /\ IF ArgOk(v, 1, "String")
       THEN CallInvoke(t, hframe[t], "onConsole", <<Get(v, 1).val>>, "done")
       ELSE Panic(t)
    /\ UNCHANGED <<callbacks, cbLock, luaReg, nextKey, players, plLock, netId,
                   userId, logs, sframe, fired>>
    /\ UNCHANGED sessVars
    /\ UNCHANGED apiVars
    /\ UNCHANGED extVars

\* "SetHasGrowID": let growid = variant.get(2).unwrap().as_string();
\* login_info.tank_id_name = growid, under the login_info lock
ArmSetHasGrowID(t) ==
    LET v == hframe[t].variant IN
    /\ pc[t] = "match"
    /\ FunctionCall(v) = "SetHasGrowID"
    /\ IF ArgOk(v, 2, "String")
       THEN /\ held["login_info"] = None
            /\ IF auth.login_info # <<>>
               THEN /\ tankIdName' = Get(v, 2).val
                    /\ pc' = [pc EXCEPT ![t] = "done"]
                    /\ UNCHANGED <<hframe, iframe>>
               ELSE Panic(t) /\ UNCHANGED tankIdName
       ELSE Panic(t) /\ UNCHANGED tankIdName
    /\ UNCHANGED <<callbacks, cbLock, luaReg, nextKey, players, plLock, netId,
                   userId, logs, sframe, fired>>
    /\ UNCHANGED sessVars
    /\ UNCHANGED apiVars
    /\ UNCHANGED <<gameVars, pktVars, pureVars, regVars, viewVars>>

\* the OnRemove text block names a net id
RemoveOk(v) ==
    /\ ArgOk(v, 1, "String")
    /\ "netID" \in DOMAIN parse_and_store_as_map(Get(v, 1).val)
    /\ ParseOk(parse_and_store_as_map(Get(v, 1).val)["netID"])

RemoveNetId(v) == ParseU32(parse_and_store_as_map(Get(v, 1).val)["netID"])

\* what HashMap::insert / HashMap::remove return: the value found under k
Found(m, k) == IF k \in DOMAIN m THEN <<m[k]>> ELSE <<>>

\* "OnRemove", up to players.remove(&net_id) with the players mutex held
ArmRemove(t) ==
    LET v == hframe[t].variant IN
    /\ pc[t] = "match"
    /\ FunctionCall(v) = "OnRemove"
    /\ IF RemoveOk(v)
       THEN /\ plLock = None
            /\ plLock' = t
            /\ players' = PlayersRemove(players, RemoveNetId(v))
            /\ hframe' = [hframe EXCEPT ![t].old = Found(players, RemoveNetId(v))]
            /\ pc' = [pc EXCEPT ![t] = "remove_drop"]
            /\ UNCHANGED iframe
       ELSE Panic(t) /\ UNCHANGED <<players, plLock>>
    /\ UNCHANGED <<callbacks, cbLock, luaReg, nextKey, netId, userId, logs,
                   sframe, fired>>
    /\ UNCHANGED sessVars
    /\ UNCHANGED apiVars
    /\ UNCHANGED extVars

\* drop(players); lua::invoke_callbacks(bot, "onPlayerLeave", net_id)
RemoveDrop(t) ==
    /\ pc[t] = "remove_drop"
    /\ plLock' = None
    /\ CallInvoke(t, hframe[t], "onPlayerLeave",
                  <<RemoveNetId(hframe[t].variant)>>, "done")
    /\ UNCHANGED <<callbacks, cbLock, luaReg, nextKey, players, netId, userId,
                   logs, sframe, fired>>
    /\ UNCHANGED sessVars
    /\ UNCHANGED apiVars
    /\ UNCHANGED extVars

SpawnData(v) == parse_and_store_as_map(Get(v, 1).val)

\* data.get(k).unwrap().parse().expect(..) succeeds
FieldOk(data, k) == k \in DOMAIN data /\ ParseOk(data[k])

\* variant: the bot's own record evicts the record stored under its net id
ArmSpawnSelfEvicts(t) ==
    LET v == hframe[t].variant IN
    /\ pc[t] = "match"
    /\ FunctionCall(v) = "OnSpawn"
    /\ ArgOk(v, 1, "String")
    /\ "type" \in DOMAIN SpawnData(v)
    /\ netId' = IF FieldOk(SpawnData(v), "netID")
                THEN ParseU32(SpawnData(v)["netID"]) ELSE netId
    /\ userId' = IF FieldOk(SpawnData(v), "netID") /\ FieldOk(SpawnData(v), "userID")
                 THEN ParseU32(SpawnData(v)["userID"]) ELSE userId
    /\ IF FieldOk(SpawnData(v), "netID") /\ FieldOk(SpawnData(v), "userID")
       THEN pc' = [pc EXCEPT ![t] = "done"] /\ UNCHANGED <<hframe, iframe>>
       ELSE Panic(t)
    /\ players' = IF FieldOk(SpawnData(v), "netID")
                   THEN PlayersRemove(players, ParseU32(SpawnData(v)["netID"]))
                   ELSE players
    /\ UNCHANGED <<callbacks, cbLock, luaReg, nextKey, plLock, logs, sframe, fired>>
    /\ UNCHANGED sessVars
    /\ UNCHANGED apiVars
    /\ UNCHANGED extVars

\* "OnSpawn" carrying a "type" key: the bot's own record.  set_net_id runs
\* before the user id is looked up.
ArmSpawnSelf(t) ==
    LET v == hframe[t].variant IN
    /\ pc[t] = "match"
    /\ FunctionCall(v) = "OnSpawn"
    /\ ArgOk(v, 1, "String")
    /\ "type" \in DOMAIN SpawnData(v)
    /\ netId' = IF FieldOk(SpawnData(v), "netID")
                THEN ParseU32(SpawnData(v)["netID"]) ELSE netId
    /\ userId' = IF FieldOk(SpawnData(v), "netID") /\ FieldOk(SpawnData(v), "userID")
                 THEN ParseU32(SpawnData(v)["userID"]) ELSE userId
    /\ IF FieldOk(SpawnData(v), "netID") /\ FieldOk(SpawnData(v), "userID")
       THEN pc' = [pc EXCEPT ![t] = "done"] /\ UNCHANGED <<hframe, iframe>>
       ELSE Panic(t)
    /\ UNCHANGED <<callbacks, cbLock, luaReg, nextKey, players, plLock, logs,
                   sframe, fired>>
    /\ UNCHANGED sessVars
    /\ UNCHANGED apiVars
    /\ UNCHANGED extVars

\* variant: the bot stays whatever the flags are
LeaveNever(out, p) == out

\* if player.m_state == 1 || player.invisible { bot.leave(); }
LeaveIfFlagged(out, p) ==
    IF p.m_state = 1 \/ p.invisible THEN Append(out, "leave") ELSE out

\* variant: the player is inserted before the onPlayerJoin fan-out
ArmSpawnOtherInsertsFirst(t) ==
    LET v == hframe[t].variant
        p == PlayerOf(SpawnData(v))
    IN
    /\ pc[t] = "match"
    /\ FunctionCall(v) = "OnSpawn"
    /\ ~(ArgOk(v, 1, "String") /\ "type" \in DOMAIN SpawnData(v))
    /\ IF ArgOk(v, 1, "String") /\ PlayerOk(SpawnData(v))
       THEN /\ CallInvoke(t,
                [hframe[t] EXCEPT
                    !.player = <<p>>,
                    !.out = LeaveIfFlagged(@, p)],
                "onPlayerJoin", <<LuaPlayer(p)>>, "insert")
            /\ players' = PlayersInsert(players, p)
       ELSE Panic(t) /\ UNCHANGED players
    /\ UNCHANGED <<callbacks, cbLock, luaReg, nextKey, plLock, netId,
                   userId, logs, sframe, fired>>
    /\ UNCHANGED sessVars
    /\ UNCHANGED apiVars
    /\ UNCHANGED extVars

\* "OnSpawn" of another player, up to the onPlayerJoin fan-out
ArmSpawnOther(t) ==
    LET v == hframe[t].variant
        p == PlayerOf(SpawnData(v))
    IN
    /\ pc[t] = "match"
    /\ FunctionCall(v) = "OnSpawn"
    /\ ~(ArgOk(v, 1, "String") /\ "type" \in DOMAIN SpawnData(v))
    /\ IF ArgOk(v, 1, "String") /\ PlayerOk(SpawnData(v))
       THEN CallInvoke(t,
                [hframe[t] EXCEPT
                    !.player = <<p>>,
                    !.out = LeaveIfFlagged(@, p)],
                "onPlayerJoin", <<LuaPlayer(p)>>, "insert")
       ELSE Panic(t)
    /\ UNCHANGED <<callbacks, cbLock, luaReg, nextKey, players, plLock, netId,
                   userId, logs, sframe, fired>>
    /\ UNCHANGED sessVars
    /\ UNCHANGED apiVars
    /\ UNCHANGED extVars

\* let mut players = bot.world.players.lock().unwrap();
\* players.insert(player.net_id, player);
SpawnInsert(t) ==
    LET p == hframe[t].player[1] IN
    /\ pc[t] = "insert"
    /\ plLock = None
    /\ players' = PlayersInsert(players, p)
    /\ hframe' = [hframe EXCEPT ![t].old = Found(players, p.net_id)]
    /\ pc' = [pc EXCEPT ![t] = "done"]
    /\ UNCHANGED <<callbacks, cbLock, luaReg, nextKey, plLock, netId, userId,
                   logs, iframe, sframe, fired>>
    /\ UNCHANGED sessVars
    /\ UNCHANGED apiVars
    /\ UNCHANGED extVars

\* _ => {}
ArmOther(t) ==
    /\ pc[t] = "match"
    /\ FunctionCall(hframe[t].variant) \notin HandledNames
    /\ pc' = [pc EXCEPT ![t] = "done"]
    /\ UNCHANGED <<callbacks, cbLock, luaReg, nextKey, players, plLock, netId,
                   userId, logs, hframe, iframe, sframe, fired>>
    /\ UNCHANGED sessVars
    /\ UNCHANGED apiVars
    /\ UNCHANGED extVars

\* ------------------------------------------------ handle: "OnSetBux" ----
MaxDeltas == 2

\* variant: the counter is set to the delta
set_gems(g, d) == d

\* bot.inventory.add_gems(gems).  The inventory is not among the sources at
\* hand; the counter is taken to be increased by the signed amount.
add_gems(g, d) == g + d

\* let gems = variant.get(1).unwrap().as_int32(); bot.inventory.add_gems(gems)
ArmSetBux(t) ==
    LET v == hframe[t].variant IN
    /\ pc[t] = "match"
    /\ FunctionCall(v) = "OnSetBux"
    /\ IF ArgOk(v, 1, "Signed")
       THEN /\ gems' = add_gems(gems, Get(v, 1).val)
            /\ deltas' = Append(deltas, Get(v, 1).val)
            /\ pc' = [pc EXCEPT ![t] = "done"]
            /\ UNCHANGED <<hframe, iframe>>
       ELSE Panic(t) /\ UNCHANGED <<gems, deltas>>
    /\ UNCHANGED <<callbacks, cbLock, luaReg, nextKey, players, plLock, netId,
                   userId, logs, sframe, fired>>
    /\ UNCHANGED sessVars
    /\ UNCHANGED apiVars
    /\ UNCHANGED <<dialogCb, pktVars, pureVars, regVars, idVars, viewVars>>

\* ----------------------------------------- handle: "OnDialogRequest" ----
\* a text is kept as the sequence of its words; s.contains(pat)
Contains(text, pat) ==
    \E i \in 1..(Len(text) - Len(pat) + 1) : SubSeq(text, i, i + Len(pat) - 1) = pat

\* variant: every dialog is acknowledged
GazetteMatchesAny(message) == TRUE

\* message.contains("Gazette")
GazetteMatches(message) == Contains(message, <<"Gazette">>)

GazetteReply == "action|dialog_return\ndialog_name|gazette\nbuttonClicked|banner\n"

\* code outside handle stores a handler in the slot, or clears it
DialogSlotSet(cb) ==
    /\ held["dialog_callback"] = None
    /\ dialogCb # cb
    /\ dialogCb' = cb
    /\ UNCHANGED <<coreVars, sessVars, apiVars, gems, deltas, pktVars, pureVars, regVars, idVars, viewVars>>

\* let message = variant.get(1).unwrap().as_string();
\* lua::invoke_callbacks(bot, "onDialogRequest", message.clone())
ArmDialog(t) ==
    LET v == hframe[t].variant IN
    /\ pc[t] = "match"
    /\ FunctionCall(v) = "OnDialogRequest"
    /\ IF ArgOk(v, 1, "String")
       THEN CallInvoke(t, hframe[t], "onDialogRequest", <<Get(v, 1).val>>, "dialog_cb")
       ELSE Panic(t)
    /\ UNCHANGED <<callbacks, cbLock, luaReg, nextKey, players, plLock, netId,
                   userId, logs, sframe, fired>>
    /\ UNCHANGED sessVars
    /\ UNCHANGED apiVars
    /\ UNCHANGED extVars

\* what a native handler stores in the slot when it runs: one handler clears
\* the slot, one installs another handler, the others leave the slot alone
HandlerSlotWrite(h, slot) ==
    CASE h = "once_dialog" -> <<>>
      [] h = "chain_dialog" -> <<"drop_dialog">>
      [] OTHER -> slot

\* the guard of the slot lives until the handler has returned
DialogReadKeepsGuard(t) ==
    /\ pc[t] = "dialog_cb"
    /\ held["dialog_callback"] = None
    /\ held' = [held EXCEPT !["dialog_callback"] = t]
    /\ hframe' = [hframe EXCEPT ![t].cb = dialogCb]
    /\ pc' = [pc EXCEPT ![t] = "dialog_call"]
    /\ UNCHANGED <<callbacks, cbLock, luaReg, nextKey, players, plLock, netId,
                   userId, logs, iframe, sframe, fired>>
    /\ UNCHANGED <<auth, redirecting, itemDb, peerStatus, position, file>>
    /\ UNCHANGED apiVars
    /\ UNCHANGED extVars

\* let cb = { let dialog_callback = ..dialog_callback.lock().unwrap();
\*            dialog_callback.clone() };
DialogRead(t) ==
    /\ pc[t] = "dialog_cb"
    /\ held["dialog_callback"] = None
    /\ hframe' = [hframe EXCEPT ![t].cb = dialogCb]
    /\ pc' = [pc EXCEPT ![t] = "dialog_call"]
    /\ UNCHANGED <<callbacks, cbLock, luaReg, nextKey, players, plLock, netId,
                   userId, logs, iframe, sframe, fired>>
    /\ UNCHANGED sessVars
    /\ UNCHANGED apiVars
    /\ UNCHANGED extVars

\* if let Some(cb) = cb { cb(bot); }
DialogNative(t) ==
    LET cb == hframe[t].cb IN
    /\ pc[t] = "dialog_call"
    /\ IF cb = <<>>
       THEN UNCHANGED <<hframe, dialogCb>>
       ELSE /\ hframe' = [hframe EXCEPT ![t].out = Append(@, cb[1])]
            /\ HandlerSlotWrite(cb[1], dialogCb) # dialogCb =>
                  held["dialog_callback"] = None
            /\ dialogCb' = HandlerSlotWrite(cb[1], dialogCb)
    /\ pc' = [pc EXCEPT ![t] = "dialog_ack"]
    /\ UNCHANGED <<callbacks, cbLock, luaReg, nextKey, players, plLock, netId,
                   userId, logs, iframe, sframe, fired>>
    /\ UNCHANGED sessVars
    /\ UNCHANGED apiVars
    /\ UNCHANGED <<gems, deltas, pktVars, pureVars, regVars, idVars, viewVars>>

\* if message.contains("Gazette") { bot.send_text_packet(GenericText, ..) }
DialogAck(t) ==
    /\ pc[t] = "dialog_ack"
    /\ hframe' = [hframe EXCEPT ![t].out =
                     IF GazetteMatches(Get(hframe[t].variant, 1).val)
                     THEN Append(@, GazetteReply) ELSE @]
    /\ pc' = [pc EXCEPT ![t] = "done"]
    /\ UNCHANGED <<callbacks, cbLock, luaReg, nextKey, players, plLock, netId,
                   userId, logs, iframe, sframe, fired>>
    /\ UNCHANGED sessVars
    /\ UNCHANGED apiVars
    /\ UNCHANGED extVars

\* ------------------------------------------- handle: the logon-accept arm ----
LogonName == "OnSuperMainStartAcceptLogonHrdxs47254722215a"

EnterGame == "action|enter_game"
RefreshItemData == "action|refresh_item_data"

\* utils::proton::hash(data, FixedLength(len)) as u32.  The function is not
\* among the sources at hand; it is taken as a rotate-and-add fold over the
\* bytes, here on a 4-bit word: a function of the content alone under which
\* different contents may collide.
RECURSIVE HashFold(_, _)
HashFold(data, acc) ==
    IF data = <<>> THEN acc
    ELSE HashFold(Tail(data), ((acc \div 8) + (acc * 2) + Head(data)) % 16)

hash(data) == HashFold(data, 5)

\* gtitem_r::load_from_file: Ok for a file that holds a database
Loadable(content) == content # <<>>

load_from_file(content) == ItemDatabase(content)

\* variant: any cached file passes
ChecksumPresent(f, server_hash) == f # <<>>

\* fs::read is Ok(data) and hash == server_hash
ChecksumMatches(f, server_hash) == f # <<>> /\ hash(f[1]) = server_hash

CompareOutcome(f, server_hash) ==
    IF f = <<>> THEN "absent"
    ELSE IF ChecksumMatches(f, server_hash) THEN "match" ELSE "differ"

\* variant: the phase is left as it was
AfterMatchKeeps(ps) == ps

\* variant: a bot that is in a world stays in it
AfterMatchForward(ps) == IF ps = "InWorld" THEN ps ELSE "InGame"

\* *peer_status = PeerStatus::InGame
AfterMatch(ps) == "InGame"

\* The arm up to the send: the cached file is read and its checksum compared;
\* on a match the enter-game action is sent, otherwise the refresh request
ArmLogon(t) ==
    LET v == hframe[t].variant IN
    /\ pc[t] = "match"
    /\ FunctionCall(v) = LogonName
    /\ IF ~ArgOk(v, 1, "Unsigned")
       THEN Panic(t)
       ELSE IF ChecksumMatches(file, Get(v, 1).val)
       THEN /\ hframe' = [hframe EXCEPT ![t] =
                             [hframe[t] EXCEPT !.out = Append(@, EnterGame),
                                               !.cmp = "match"]]
            /\ pc' = [pc EXCEPT ![t] = "logon_flag"]
            /\ UNCHANGED iframe
       ELSE /\ hframe' = [hframe EXCEPT ![t] =
                             [hframe[t] EXCEPT
                                 !.out = Append(@, RefreshItemData),
                                 !.cmp = CompareOutcome(file, Get(v, 1).val)]]
            /\ pc' = [pc EXCEPT ![t] = "done"]
            /\ UNCHANGED iframe
    /\ UNCHANGED <<callbacks, cbLock, luaReg, nextKey, players, plLock, netId,
                   userId, logs, sframe, fired>>
    /\ UNCHANGED sessVars
    /\ UNCHANGED apiVars
    /\ UNCHANGED extVars

\* bot.runtime.set_redirecting(false)
LogonFlag(t) ==
    /\ pc[t] = "logon_flag"
    /\ redirecting' = FALSE
    /\ pc' = [pc EXCEPT ![t] = "logon_load"]
    /\ UNCHANGED <<callbacks, cbLock, luaReg, nextKey, players, plLock, netId,
                   userId, logs, hframe, iframe, sframe, fired, file, itemDb,
                   peerStatus, position, auth, held>>
    /\ UNCHANGED apiVars
    /\ UNCHANGED extVars

\* variant: the item database is left as it was
LogonLoadSkipped(t) ==
    /\ pc[t] = "logon_load"
    /\ held["item_database"] = None
    /\ held' = [held EXCEPT !["item_database"] = t]
    /\ pc' = [pc EXCEPT ![t] = "logon_db"]
    /\ UNCHANGED <<callbacks, cbLock, luaReg, nextKey, players, plLock, netId,
                   userId, logs, hframe, iframe, sframe, fired, file, itemDb,
                   peerStatus, redirecting, position, auth>>
    /\ UNCHANGED apiVars
    /\ UNCHANGED extVars

\* gtitem_r::load_from_file("items.dat").expect(..), then
\* *bot.world.item_database.write().unwrap() = item_database: the write guard
\* of the item database lives until the arm returns
LogonLoad(t) ==
    /\ pc[t] = "logon_load"
    /\ IF file # <<>> /\ Loadable(file[1])
       THEN /\ held["item_database"] = None
            /\ dbReaders = {}
            /\ held' = [held EXCEPT !["item_database"] = t]
            /\ itemDb' = load_from_file(file[1])
            /\ pc' = [pc EXCEPT ![t] = "logon_db"]
            /\ UNCHANGED <<hframe, iframe>>
       ELSE Panic(t) /\ UNCHANGED <<itemDb, held>>
    /\ UNCHANGED <<callbacks, cbLock, luaReg, nextKey, players, plLock, netId,
                   userId, logs, sframe, fired, file, peerStatus, redirecting,
                   position, auth>>
    /\ UNCHANGED apiVars
    /\ UNCHANGED extVars

\* let mut peer_status = bot.peer_status.lock().unwrap();
LogonPeerLock(t) ==
    /\ pc[t] = "logon_db"
    /\ held["peer_status"] = None
    /\ held' = [held EXCEPT !["peer_status"] = t]
    /\ pc' = [pc EXCEPT ![t] = "logon_peer"]
    /\ UNCHANGED <<callbacks, cbLock, luaReg, nextKey, players, plLock, netId,
                   userId, logs, hframe, iframe, sframe, fired, file, itemDb,
                   peerStatus, redirecting, position, auth>>
    /\ UNCHANGED apiVars
    /\ UNCHANGED extVars

\* variant: the match branch does not return and goes on to the request
LogonPeerSetFallsThrough(t) ==
    /\ pc[t] = "logon_peer"
    /\ peerStatus' = AfterMatch(peerStatus)
    /\ held' = [held EXCEPT !["peer_status"] = None, !["item_database"] = None]
    /\ hframe' = [hframe EXCEPT ![t].out = Append(@, RefreshItemData)]
    /\ pc' = [pc EXCEPT ![t] = "done"]
    /\ UNCHANGED <<callbacks, cbLock, luaReg, nextKey, players, plLock, netId,
                   userId, logs, iframe, sframe, fired, file, itemDb,
                   redirecting, position, auth>>
    /\ UNCHANGED apiVars
    /\ UNCHANGED extVars

\* *peer_status = PeerStatus::InGame; the inner block ends; return
LogonPeerSet(t) ==
    /\ pc[t] = "logon_peer"
    /\ peerStatus' = AfterMatch(peerStatus)
    /\ held' = [held EXCEPT !["peer_status"] = None, !["item_database"] = None]
    /\ pc' = [pc EXCEPT ![t] = "done"]
    /\ UNCHANGED <<callbacks, cbLock, luaReg, nextKey, players, plLock, netId,
                   userId, logs, hframe, iframe, sframe, fired, file, itemDb,
                   redirecting, position, auth>>
    /\ UNCHANGED apiVars
    /\ UNCHANGED extVars

\* ------------------------------------------------ handle: "OnSetPos" ----
\* variant: the position is left as it was
set_position_keeps(pos, x, y) == pos

\* bot.movement.set_position(x, y)
set_position(pos, x, y) == <<x, y>>

\* bot.movement.set_position(pos.0, pos.1), then the onSetPos fan-out
ArmSetPos(t) ==
    LET v == hframe[t].variant IN
    /\ pc[t] = "match"
    /\ FunctionCall(v) = "OnSetPos"
    /\ IF ArgOk(v, 1, "Vec2")
       THEN /\ position' = set_position(position, Get(v, 1).val[1], Get(v, 1).val[2])
            /\ CallInvoke(t, hframe[t], "onSetPos",
                          <<Get(v, 1).val[1], Get(v, 1).val[2]>>, "done")
       ELSE Panic(t) /\ UNCHANGED position
    /\ UNCHANGED <<callbacks, cbLock, luaReg, nextKey, players, plLock, netId,
                   userId, logs, sframe, fired, file, itemDb, peerStatus,
                   redirecting, auth, held>>
    /\ UNCHANGED apiVars
    /\ UNCHANGED extVars

\* ------------------------------------------ handle: "OnSendToServer" ----
\* port as u16
AsU16(n) == n % 65536

\* server_data.split('|').map(|s| s.trim_end().to_string()).collect(): the
\* text is kept as the sequence of its segments, written without trailing
\* white space
SplitPipe(text) == text

\* variant.get(1..=5) read as int32, int32, int32, string, int32
SendToServerArgsOk(v) ==
    /\ ArgOk(v, 1, "Signed") /\ ArgOk(v, 2, "Signed") /\ ArgOk(v, 3, "Signed")
    /\ ArgOk(v, 4, "String") /\ ArgOk(v, 5, "Signed")

\* the arm up to set_redirecting(true): the guard of the server data lives
\* until the arm ends
ArmSendToServer(t) ==
    LET v == hframe[t].variant IN
    /\ pc[t] = "match"
    /\ FunctionCall(v) = "OnSendToServer"
    /\ IF SendToServerArgsOk(v)
       THEN /\ held["server_data"] = None
            /\ held' = [held EXCEPT !["server_data"] = t]
            /\ IF auth.server_data # <<>>
               THEN /\ auth' = [auth EXCEPT !.server_data =
                                   <<ServerData(SplitPipe(Get(v, 4).val)[1],
                                                AsU16(Get(v, 1).val))>>]
                    /\ redirecting' = TRUE
                    /\ pc' = [pc EXCEPT ![t] = "sts_login"]
                    /\ UNCHANGED <<hframe, iframe>>
               ELSE Panic(t) /\ UNCHANGED <<auth, redirecting>>
       ELSE Panic(t) /\ UNCHANGED <<auth, redirecting, held>>
    /\ UNCHANGED <<callbacks, cbLock, luaReg, nextKey, players, plLock, netId,
                   userId, logs, sframe, fired, file, itemDb, peerStatus,
                   position>>
    /\ UNCHANGED apiVars
    /\ UNCHANGED extVars

\* let mut login_info_lock = bot.auth.login_info(), with the server data
\* still locked
SendToServerLoginLock(t) ==
    /\ pc[t] = "sts_login"
    /\ held["login_info"] = None
    /\ held' = [held EXCEPT !["login_info"] = t]
    /\ pc' = [pc EXCEPT ![t] = "sts_write"]
    /\ UNCHANGED <<callbacks, cbLock, luaReg, nextKey, players, plLock, netId,
                   userId, logs, hframe, iframe, sframe, fired, file, itemDb,
                   peerStatus, redirecting, position, auth>>
    /\ UNCHANGED apiVars
    /\ UNCHANGED extVars

\* variant: the connection is closed with the old login fields still there
SendToServerWriteSkipped(t) ==
    /\ pc[t] = "sts_write"
    /\ pc' = [pc EXCEPT ![t] = "sts_disc"]
    /\ UNCHANGED <<callbacks, cbLock, luaReg, nextKey, players, plLock, netId,
                   userId, logs, hframe, iframe, sframe, fired, file, itemDb,
                   peerStatus, redirecting, position, auth, held>>
    /\ UNCHANGED apiVars
    /\ UNCHANGED extVars

\* the login fields are written; a data block of fewer than three segments
\* panics at parsed_server_data[1] or [2], after token and user were written,
\* and the unwinding drops both guards
SendToServerWrite(t) ==
    LET v      == hframe[t].variant
        parsed == SplitPipe(Get(v, 4).val)
        old    == auth.login_info[1]
    IN
    /\ pc[t] = "sts_write"
    /\ IF Len(parsed) >= 3
       THEN /\ auth' = [auth EXCEPT !.login_info =
                           <<LoginInfo(ToString(Get(v, 2).val), ToString(Get(v, 3).val),
                                       parsed[2], parsed[3], ToString(Get(v, 5).val))>>]
            /\ pc' = [pc EXCEPT ![t] = "sts_disc"]
            /\ UNCHANGED <<hframe, iframe, held>>
       ELSE /\ auth' = [auth EXCEPT !.login_info =
                           <<LoginInfo(ToString(Get(v, 2).val), ToString(Get(v, 3).val),
                                       IF Len(parsed) >= 2 THEN parsed[2] ELSE old.door_id,
                                       old.uuid, old.aat)>>]
            /\ held' = [held EXCEPT !["login_info"] = None, !["server_data"] = None]
            /\ Panic(t)
    /\ UNCHANGED <<callbacks, cbLock, luaReg, nextKey, players, plLock, netId,
                   userId, logs, sframe, fired, file, itemDb, peerStatus,
                   redirecting, position>>
    /\ UNCHANGED apiVars
    /\ UNCHANGED extVars

\* bot.disconnect() with both guards alive; the arm ends and drops them
SendToServerDisconnect(t) ==
    /\ pc[t] = "sts_disc"
    /\ hframe' = [hframe EXCEPT ![t].out = Append(@, "disconnect")]
    /\ held' = [held EXCEPT !["login_info"] = None, !["server_data"] = None]
    /\ pc' = [pc EXCEPT ![t] = "done"]
    /\ UNCHANGED <<callbacks, cbLock, luaReg, nextKey, players, plLock, netId,
                   userId, logs, iframe, sframe, fired, file, itemDb, peerStatus,
                   redirecting, position, auth>>
    /\ UNCHANGED apiVars
    /\ UNCHANGED extVars

\* the cached file is written or deleted between two events
\* PeerStatus
Phases == {"FetchingServerData", "ConnectingToServer", "InGame", "InWorld"}

\* between two events the rest of the bot moves the phase on: the connect
\* sequence, the entry into a world, the return from it
PhaseSet(p) ==
    /\ \A t \in Threads : pc[t] = "idle"
    /\ held["peer_status"] = None
    /\ peerStatus # p
    /\ peerStatus' = p
    /\ UNCHANGED <<callbacks, cbLock, luaReg, nextKey, players, plLock, netId,
                   userId, logs, pc, hframe, iframe, sframe, fired, file, itemDb,
                   redirecting, position, auth, held>>
    /\ UNCHANGED apiVars
    /\ UNCHANGED extVars

FileContents == {<<>>, <<1>>, <<2>>}

FileWrite(f) ==
    /\ \A t \in Threads : pc[t] = "idle"
    /\ file # f
    /\ file' = f
    /\ UNCHANGED <<callbacks, cbLock, luaReg, nextKey, players, plLock, netId,
                   userId, logs, pc, hframe, iframe, sframe, fired, itemDb,
                   peerStatus, redirecting, position, auth, held>>
    /\ UNCHANGED apiVars
    /\ UNCHANGED extVars

\* handle returns to the receive loop
Return(t) ==
    /\ pc[t] = "done"
    /\ pc' = [pc EXCEPT ![t] = "idle"]
    /\ hframe' = [hframe EXCEPT ![t] = IdleH]
    /\ iframe' = [iframe EXCEPT ![t] = IdleI]
    /\ UNCHANGED <<callbacks, cbLock, luaReg, nextKey, players, plLock, netId,
                   userId, logs, sframe, fired>>
    /\ UNCHANGED sessVars
    /\ UNCHANGED apiVars
    /\ UNCHANGED extVars

\* ------------------------------------------- non-blocking reads ----
WorldNames == {"EXIT", "W"}

\* bot.world.data.lock() in a script's bot.world:getTiles() and in the code
\* that enters and leaves worlds; the guard is dropped when the call ends
WorldDataLock(t) ==
    /\ held["world_data"] = None
    /\ held' = [held EXCEPT !["world_data"] = t]
    /\ UNCHANGED <<coreVars, file, itemDb, peerStatus, redirecting, position,
                   auth, apiVars>>
    /\ UNCHANGED extVars

WorldDataUnlock(t) ==
    /\ held["world_data"] = t
    /\ held' = [held EXCEPT !["world_data"] = None]
    /\ UNCHANGED <<coreVars, file, itemDb, peerStatus, redirecting, position,
                   auth, apiVars>>
    /\ UNCHANGED extVars

\* the world model is replaced in place on a world transition
WorldEnter(t, name) ==
    /\ held["world_data"] = t
    /\ worldName # name
    /\ worldName' = name
    /\ UNCHANGED <<coreVars, sessVars, obs, http, workers>>
    /\ UNCHANGED extVars

\* the isInWorld field: try_lock, Ok(w) => w.name != "EXIT", Err(_) => false
isInWorld(lockFree, name) == IF lockFree THEN name # "EXIT" ELSE FALSE

\* the world of a BotInfo in list_bots:
\* try_lock().ok().map(|w| if w.name != "EXIT" { Some(name) } else { None }).flatten()
BotInfoWorld(lockFree, name) ==
    IF lockFree THEN (IF name # "EXIT" THEN <<name>> ELSE <<>>) ELSE <<>>

PlayerInfo(p) == [name |-> p.name, net_id |-> p.net_id, position |-> p.position]

\* get_world: try_lock on the world data, then on the players
get_world(worldFree, playersFree, name, pl) ==
    IF ~worldFree
    THEN [success |-> FALSE, error |-> "Could not get world data"]
    ELSE IF ~playersFree
    THEN [success |-> FALSE, error |-> "Could not get players data"]
    ELSE [success |-> TRUE, name |-> name,
          players |-> {PlayerInfo(pl[id]) : id \in DOMAIN pl}]

\* Json(ApiResponse { success, data, error })
Failure(error) == [success |-> FALSE, error |-> error]
Success == [success |-> TRUE, error |-> None]

\* what a read returns when it finds its locks free
ValidResults(op) ==
    CASE op = "isInWorld" -> {isInWorld(TRUE, n) : n \in WorldNames}
      [] op = "list_bots" -> {BotInfoWorld(TRUE, n) : n \in WorldNames}
      [] op = "get_world" -> {get_world(TRUE, TRUE, n, players) : n \in WorldNames}
      [] op = "get_inventory" -> {Success}
      [] op = "get_logs" -> {logs}

\* what a read returns: list_bots, get_world and isInWorld use try_lock;
\* get_inventory a snapshot of the inventory, get_logs one of the log buffer
ReadResult(op, worldFree, playersFree) ==
    CASE op = "isInWorld" -> isInWorld(worldFree, worldName)
      [] op = "list_bots" -> BotInfoWorld(worldFree, worldName)
      [] op = "get_world" -> get_world(worldFree, playersFree, worldName, players)
      [] op = "get_inventory" -> Success
      [] op = "get_logs" -> logs

\* variant: the read goes through the callbacks mutex
ObserveViaBus(op) ==
    LET worldFree   == held["world_data"] = None
        playersFree == plLock = None
    IN
    /\ cbLock = None
    /\ obs' = [op |-> op,
               busy |-> op \in {"isInWorld", "list_bots", "get_world"}
                        /\ (~worldFree \/ (op = "get_world" /\ ~playersFree)),
               res |-> ReadResult(op, worldFree, playersFree),
               fanout |-> cbLock # None]
    /\ UNCHANGED <<coreVars, sessVars, worldName, http, workers>>
    /\ UNCHANGED extVars

\* an observer makes one of the reads; none of them waits: try_lock returns
\* at once and the callbacks mutex is not among the locks they take
Observe(op) ==
    LET worldFree   == held["world_data"] = None
        playersFree == plLock = None
    IN
    /\ obs' = [op |-> op,
               busy |-> op \in {"isInWorld", "list_bots", "get_world"}
                        /\ (~worldFree \/ (op = "get_world" /\ ~playersFree)),
               res |-> ReadResult(op, worldFree, playersFree),
               fanout |-> cbLock # None]
    /\ UNCHANGED <<coreVars, sessVars, worldName, http, workers>>
    /\ UNCHANGED extVars

\* --------------------------------------- HTTP action requests (main.rs) ----
MaxWorkers == 2

Actions == {"warp", "move", "connect"}
Directions == {"up", "down", "left", "right"}

\* a request arrives: its path id is no UUID, the id of no bot, or a bot's id
HttpRequest(kind, id, dir) ==
    /\ http.pc = "idle"
    /\ Len(workers) < MaxWorkers
    /\ http' = [pc |-> "lookup", req |-> [kind |-> kind, id |-> id, dir |-> dir],
                resp |-> <<>>]
    /\ UNCHANGED <<coreVars, sessVars, worldName, obs, workers>>
    /\ UNCHANGED extVars

\* what the handler returns before it has spawned anything: <<>> when it goes on
EarlyReturn(req) ==
    IF req.id = "bad" THEN <<Failure("Invalid bot ID")>>
    ELSE IF req.id = "unknown" THEN <<Failure("Bot not found")>>
    ELSE IF req.kind = "move" /\ req.dir \notin Directions
    THEN <<Failure("Invalid direction")>>
    ELSE <<>>

\* Uuid::parse_str, the lookup in state.bots, the direction of a move, and
\* std::thread::spawn(move || bot.warp(..) / bot.walk(..) / bot.connect_to_server())
HttpSpawn ==
    /\ http.pc = "lookup"
    /\ IF EarlyReturn(http.req) # <<>>
       THEN /\ http' = [http EXCEPT !.pc = "idle", !.resp = EarlyReturn(http.req)]
            /\ UNCHANGED workers
       ELSE /\ workers' = Append(workers, [action |-> http.req.kind, stage |-> "started"])
            /\ http' = [http EXCEPT !.pc = "spawned"]
    /\ UNCHANGED <<coreVars, sessVars, worldName, obs>>
    /\ UNCHANGED extVars

\* variant: the handler joins the thread it spawned
HttpRespondJoins ==
    /\ http.pc = "spawned"
    /\ workers[Len(workers)].stage = "finished"
    /\ http' = [http EXCEPT !.pc = "idle", !.resp = <<Success>>]
    /\ UNCHANGED <<coreVars, sessVars, worldName, obs, workers>>
    /\ UNCHANGED extVars

\* Json(ApiResponse { success: true, .. }): the JoinHandle was dropped
HttpRespond ==
    /\ http.pc = "spawned"
    /\ http' = [http EXCEPT !.pc = "idle", !.resp = <<Success>>]
    /\ UNCHANGED <<coreVars, sessVars, worldName, obs, workers>>
    /\ UNCHANGED extVars

\* the spawned thread runs the action, which waits out its in-game delays
WorkerStep(i) ==
    /\ i \in 1..Len(workers)
    /\ workers[i].stage # "finished"
    /\ workers' = [workers EXCEPT ![i].stage =
                       IF @ = "started" THEN "waiting" ELSE "finished"]
    /\ UNCHANGED <<coreVars, sessVars, worldName, obs, http>>
    /\ UNCHANGED extVars

\* ------------------------------------- GamePacket objects (bot.rs) ----
MaxWrites == 2

\* the fields of NetGamePacketData
PacketFields ==
    {"_type", "object_type", "jump_count", "animation_type", "net_id",
     "target_net_id", "flags", "float_variable", "value", "vector_x",
     "vector_y", "vector_x2", "vector_y2", "particle_rotation", "int_x",
     "int_y", "extended_data_length"}

\* NetGamePacketData::default()
DefaultPacket == [f \in PacketFields |-> 0]

\* handle 1 is the userdata the script holds, handle 2 the LuaGamePacket that
\* FromLua builds for the method called
Userdata == 1
Duplicate == 2

\* GamePacket(type?): a default packet, with the type when one is given
GamePacketCtor(pkt_type) ==
    /\ Userdata \notin DOMAIN pkts
    /\ pkts' = MapInsert(pkts, Userdata,
                         IF pkt_type = <<>> THEN DefaultPacket
                         ELSE [DefaultPacket EXCEPT !["_type"] = pkt_type[1]])
    /\ UNCHANGED <<coreVars, sessVars, apiVars, gameVars, passed, readAt, pureVars, regVars, idVars, viewVars>>

\* the number of fields of a packet that differ from the default
Written(p) == Cardinality({f \in PacketFields : p[f] # 0})

\* a field setter of the userdata: pkt.<field> = v (v as the setter stores it)
PacketSet(f, v) ==
    /\ Userdata \in DOMAIN pkts
    /\ pkts[Userdata][f] # v
    /\ Written(pkts[Userdata]) < MaxWrites
    /\ pkts' = [pkts EXCEPT ![Userdata][f] = v]
    /\ UNCHANGED <<coreVars, sessVars, apiVars, gameVars, passed, readAt, pureVars, regVars, idVars, viewVars>>

\* variant: the last field is left at its default
from_lua_short(p) ==
    [f \in PacketFields |-> IF f = "extended_data_length" THEN 0 ELSE p[f]]

\* FromLua for LuaGamePacket, the UserData case: a new NetGamePacketData with
\* each field read from the borrowed one
from_lua(p) ==
    [f \in PacketFields |-> p[f]]

\* a script calls sendGamePacket / sendGamePacketRaw: the argument is
\* converted; anything but a GamePacket userdata is a conversion error.  The
\* LuaGamePacket built belongs to the method called.
FromLuaPacket(kind) ==
    /\ passed = 0
    /\ IF kind = "userdata"
       THEN /\ Userdata \in DOMAIN pkts
            /\ pkts' = MapInsert(pkts, Duplicate, from_lua(pkts[Userdata]))
            /\ passed' = Duplicate
            /\ readAt' = <<pkts[Userdata]>>
       ELSE /\ passed' = -1
            /\ UNCHANGED <<pkts, readAt>>
    /\ UNCHANGED <<coreVars, sessVars, apiVars, gameVars, pureVars, regVars, idVars, viewVars>>

\* this.0.send_game_packet(&pkt.0, None, reliable); Ok(()): pkt is dropped
SendGamePacket ==
    /\ passed = Duplicate
    /\ pkts' = MapRemove(pkts, Duplicate)
    /\ passed' = 0
    /\ readAt' = <<>>
    /\ UNCHANGED <<coreVars, sessVars, apiVars, gameVars, pureVars, regVars, idVars, viewVars>>

\* the conversion error ends the call before the method runs
ConversionError ==
    /\ passed = -1
    /\ passed' = 0
    /\ UNCHANGED <<coreVars, sessVars, apiVars, gameVars, pkts, readAt, pureVars, regVars, idVars, viewVars>>

\* ------------------------------- parse_and_store_as_map on a text ----
MaxLen == 6

\* the characters of a text block: a letter, the separator, the line feed
Chars == {"a", "|", "\n"}

Texts == UNION {[1..n -> Chars] : n \in 0..MaxLen}

\* a line that ends in a carriage return loses it
StripCR(line) ==
    IF line # <<>> /\ line[Len(line)] = "\r"
    THEN SubSeq(line, 1, Len(line) - 1) ELSE line

\* input.lines(): the text is cut at each line feed; what follows the last
\* line feed is a line only if it is not empty
RECURSIVE LinesFrom(_, _, _)
LinesFrom(text, cur, acc) ==
    IF text = <<>> THEN (IF cur = <<>> THEN acc ELSE Append(acc, cur))
    ELSE IF Head(text) = "\n"
    THEN LinesFrom(Tail(text), <<>>, Append(acc, StripCR(cur)))
    ELSE LinesFrom(Tail(text), Append(cur, Head(text)), acc)

lines(text) == LinesFrom(text, <<>>, <<>>)

\* line.split('|').collect(): at least one part, empty parts kept
RECURSIVE SplitFrom(_, _, _, _)
SplitFrom(line, sep, cur, acc) ==
    IF line = <<>> THEN Append(acc, cur)
    ELSE IF Head(line) = sep
    THEN SplitFrom(Tail(line), sep, <<>>, Append(acc, cur))
    ELSE SplitFrom(Tail(line), sep, Append(cur, Head(line)), acc)

split(line, sep) == SplitFrom(line, sep, <<>>, <<>>)

\* variant: the parts are put together without the separator
RECURSIVE join_plain(_, _)
join_plain(parts, sep) ==
    IF parts = <<>> THEN <<>>
    ELSE parts[1] \o join_plain(Tail(parts), sep)

\* parts.join("|")
RECURSIVE join(_, _)
join(parts, sep) ==
    IF parts = <<>> THEN <<>>
    ELSE IF Len(parts) = 1 THEN parts[1]
    ELSE parts[1] \o <<sep>> \o join(Tail(parts), sep)

\* the loop of parse_and_store_as_map over the lines of a text
RECURSIVE ParseText(_, _)
ParseText(ls, map) ==
    IF ls = <<>> THEN map
    ELSE LET parts == split(Head(ls), "|")
         IN  ParseText(Tail(ls),
                       IF Len(parts) >= 2
                       THEN MapInsert(map, parts[1],
                                      join(SubSeq(parts, 2, Len(parts)), "|"))
                       ELSE map)

\* parse_and_store_as_map(input) is called
ParseApply ==
    /\ fnRes = <<>>
    /\ fnRes' = <<ParseText(lines(fnArg), EmptyMap)>>
    /\ UNCHANGED <<coreVars, sessVars, apiVars, gameVars, pktVars, fnArg, regVars, idVars, viewVars>>

\* --------------------------------------- variant_list_to_lua_table ----
MaxArgs == 3

\* an element of a kind the conversion has no case for
VOther == [tag |-> "Other", val |-> 0]

Variants == {VString("s"), VSigned(-1), VVec2(1, 2), VOther}

VariantLists == UNION {[1..n -> Variants] : n \in 0..MaxArgs}

\* variant: the keys start at 0
TableSetAt0(table, i, v) ==
    IF ToLuaIsNil(v) THEN table ELSE MapInsert(table, i, ToLua(v))

\* table.set(i + 1, value); setting nil leaves the key absent
TableSet(table, i, v) ==
    IF ToLuaIsNil(v) THEN table ELSE MapInsert(table, i + 1, ToLua(v))

\* let table = lua.create_table()?; let mut i = 0;
ConvertBegin ==
    /\ fnRes = <<>>
    /\ fnRes' = <<[i |-> 0, table |-> EmptyMap, done |-> FALSE]>>
    /\ UNCHANGED <<coreVars, sessVars, apiVars, gameVars, pktVars, fnArg, regVars, idVars, viewVars>>

\* while let Some(v) = variant.get(i) { match v { .. }; i += 1 }
ConvertStep ==
    /\ fnRes # <<>>
    /\ ~fnRes[1].done
    /\ GetIsSome(fnArg, fnRes[1].i)
    /\ fnRes' = <<[i     |-> fnRes[1].i + 1,
                   table |-> TableSet(fnRes[1].table, fnRes[1].i, Get(fnArg, fnRes[1].i)),
                   done  |-> FALSE]>>
    /\ UNCHANGED <<coreVars, sessVars, apiVars, gameVars, pktVars, fnArg, regVars, idVars, viewVars>>

\* variant.get(i) is None: Ok(table)
ConvertEnd ==
    /\ fnRes # <<>>
    /\ ~fnRes[1].done
    /\ ~GetIsSome(fnArg, fnRes[1].i)
    /\ fnRes' = <<[fnRes[1] EXCEPT !.done = TRUE]>>
    /\ UNCHANGED <<coreVars, sessVars, apiVars, gameVars, pktVars, fnArg, regVars, idVars, viewVars>>

\* ---------------------------------------------------- specifications ----
\* ----------------------------------- the session registry (main.rs) ----
MaxBots == 2
MaxActs == 1

\* Uuid::to_string and Uuid::parse_str, on texts of hex digits: the id with
\* number n is written as n digits "f"; anything else is no id
to_string(n) == [i \in 1..n |-> "f"]

parse_str(text) ==
    IF text # <<>> /\ \A i \in DOMAIN text : text[i] = "f"
    THEN <<Len(text)>> ELSE <<>>

\* an id that was never issued, the ids that can be issued, and no ids
PathIds == {to_string(n) : n \in 1..(MaxBots + 1)} \cup {<<"f", "z">>, <<>>}

\* CreateBotRequest: login_method and credentials (with their token)
Tokens == { <<"a", ":", "a", ":", "a", ":", "a">>, <<"a", ":", "a">> }

Credentials == {<<>>} \cup {<<[token |-> tk]>> : tk \in {<<>>} \cup {<<k>> : k \in Tokens}}

CreateBodies ==
    {[login_method |-> m, credentials |-> c] :
        m \in {"legacy", "ltoken"}, c \in Credentials}
    \cup {[login_method |-> m, credentials |-> <<>>] : m \in {"google", "telepathy"}}

\* the login method a body asks for, or the error the handler returns
login_via(body) ==
    LET creds == body.credentials IN
    CASE body.login_method = "legacy" ->
            IF creds # <<>> THEN [ok |-> TRUE, via |-> "LEGACY"]
            ELSE [ok |-> FALSE, err |-> "Legacy login requires growid and password"]
      [] body.login_method = "ltoken" ->
            IF creds = <<>>
            THEN [ok |-> FALSE, err |-> "LTOKEN login requires credentials"]
            ELSE IF creds[1].token = <<>>
            THEN [ok |-> FALSE, err |-> "LTOKEN login requires token"]
            ELSE IF Len(split(creds[1].token[1], ":")) = 4
            THEN [ok |-> TRUE, via |-> "LTOKEN"]
            ELSE [ok |-> FALSE, err |-> "LTOKEN must have 4 values separated by ':'"]
      [] body.login_method = "google" -> [ok |-> TRUE, via |-> "GOOGLE"]
      [] body.login_method = "apple" -> [ok |-> TRUE, via |-> "APPLE"]
      [] OTHER -> [ok |-> TRUE, via |-> "LEGACY"]

\* the handlers that take the id of a bot from the path
IdOps == {"remove_bot", "leave_world", "get_logs"}

\* Json(ApiResponse { success: true, data: Some({ "id": .. }), error: None })
Created(id) == [success |-> TRUE, error |-> None, data |-> id]

\* a request reaches a handler task
RegRequest(h, kind, body, id) ==
    /\ rq[h].pc = "idle"
    /\ kind = "leave_world" => \A i \in DOMAIN sessions : Len(sessions[i]) < MaxActs
    /\ rq' = [rq EXCEPT ![h] = [IdleRq EXCEPT !.pc = "handler", !.kind = kind,
                                              !.body = body, !.id = id]]
    /\ UNCHANGED <<bots, issued, sessions>>
    /\ UNCHANGED <<coreVars, sessVars, apiVars, gameVars, pktVars, pureVars, idVars, viewVars>>

\* variant: the entry is inserted before the body is looked at
CreateBotInsertsFirst(h) ==
    LET lv == login_via(rq[h].body)
        bot_id == issued + 1
    IN
    /\ rq[h].pc = "handler"
    /\ rq[h].kind = "create_bot"
    /\ issued < MaxBots
    /\ issued' = bot_id
    /\ sessions' = Append(sessions, <<>>)
    /\ bots' = bots \cup {bot_id}
    /\ rq' = [rq EXCEPT ![h].pc = "idle", ![h].body = None,
                        ![h].resp = IF lv.ok THEN <<Created(to_string(bot_id))>>
                                    ELSE <<Failure(lv.err)>>]
    /\ UNCHANGED <<coreVars, sessVars, apiVars, gameVars, pktVars, pureVars, idVars, viewVars>>

\* create_bot: the body is checked, then a bot is built, its thread spawned
\* and the pair inserted under Uuid::new_v4(), which is taken to return an
\* id it has not returned before
CreateBot(h) ==
    LET lv == login_via(rq[h].body)
        bot_id == issued + 1
    IN
    /\ rq[h].pc = "handler"
    /\ rq[h].kind = "create_bot"
    /\ IF lv.ok
       THEN /\ issued < MaxBots
            /\ issued' = bot_id
            /\ sessions' = Append(sessions, <<>>)
            /\ bots' = bots \cup {bot_id}
            /\ rq' = [rq EXCEPT ![h].pc = "idle", ![h].body = None,
                                ![h].resp = <<Created(to_string(bot_id))>>]
       ELSE /\ rq' = [rq EXCEPT ![h].pc = "idle", ![h].body = None,
                                ![h].resp = <<Failure(lv.err)>>]
            /\ UNCHANGED <<bots, issued, sessions>>
    /\ UNCHANGED <<coreVars, sessVars, apiVars, gameVars, pktVars, pureVars, idVars, viewVars>>

\* Uuid::parse_str(&id), then state.bots.write().remove(&uuid) in remove_bot
\* and state.bots.read().get(&uuid) with a clone of the bot in the others
LookupBot(h) ==
    LET uuid == parse_str(rq[h].id) IN
    /\ rq[h].pc = "handler"
    /\ rq[h].kind \in IdOps
    /\ IF uuid = <<>>
       THEN /\ rq' = [rq EXCEPT ![h].pc = "idle",
                                ![h].resp = <<Failure("Invalid bot ID")>>]
            /\ UNCHANGED bots
       ELSE IF rq[h].kind = "remove_bot"
       THEN /\ bots' = bots \ {uuid[1]}
            /\ rq' = [rq EXCEPT ![h].pc = "idle",
                                ![h].resp = IF uuid[1] \in bots THEN <<Success>>
                                            ELSE <<Failure("Bot not found")>>]
       ELSE /\ rq' = IF uuid[1] \in bots
                     THEN [rq EXCEPT ![h].pc = "act", ![h].bot = uuid]
                     ELSE [rq EXCEPT ![h].pc = "idle",
                                     ![h].resp = <<Failure("Bot not found")>>]
            /\ UNCHANGED bots
    /\ UNCHANGED <<issued, sessions>>
    /\ UNCHANGED <<coreVars, sessVars, apiVars, gameVars, pktVars, pureVars, idVars, viewVars>>

\* drop(bots); bot.leave() / bot.runtime.logs_snapshot(); the response
BotAct(h) ==
    /\ rq[h].pc = "act"
    /\ sessions' = IF rq[h].kind = "leave_world"
                   THEN [sessions EXCEPT ![rq[h].bot[1]] = Append(@, "leave")]
                   ELSE sessions
    /\ rq' = [rq EXCEPT ![h].pc = "idle", ![h].resp = <<Success>>]
    /\ UNCHANGED <<bots, issued>>
    /\ UNCHANGED <<coreVars, sessVars, apiVars, gameVars, pktVars, pureVars, idVars, viewVars>>

NextRegistry ==
    \E h \in Tasks :
        \/ \E b \in CreateBodies : RegRequest(h, "create_bot", b, None)
        \/ \E k \in IdOps, id \in PathIds : RegRequest(h, k, None, id)
        \/ CreateBot(h)
        \/ LookupBot(h)
        \/ BotAct(h)

SpecRegistry == Init /\ [][NextRegistry]_vars

\* ------------------------------ read views and their locks (bot.rs) ----
\* the views a script or a callback calls, and the reads of the HTTP handlers
ScriptViews == {"getTiles", "getPlayers", "name", "status"}
WebViews == {"get_world", "list_bots", "get_inventory"}

Want(lock, mode) == [lock |-> lock, mode |-> mode]

\* variant: the status view looks an item up while it holds the phase
PlanStatusReadsDb(op) ==
    CASE op = "getTiles" -> <<Want("world_data", "lock"), Want("item_database", "read")>>
      [] op = "getPlayers" -> <<Want("players", "lock")>>
      [] op = "name" -> <<Want("login_info", "lock")>>
      [] op = "status" -> <<Want("peer_status", "lock"), Want("item_database", "read")>>
      [] op = "get_world" -> <<Want("world_data", "try"), Want("players", "try")>>
      [] op = "list_bots" -> <<Want("world_data", "try")>>
      [] op = "get_inventory" -> <<Want("item_database", "read")>>

\* the locks a view takes, in the order it takes them; each is held until
\* the view returns.  getTile and getTiles lock the world and then read the
\* item database; get_world tries the world and then the players; list_bots
\* tries the world (its try of the login data ends within one statement);
\* get_inventory reads the item database
Plan(op) ==
    CASE op = "getTiles" -> <<Want("world_data", "lock"), Want("item_database", "read")>>
      [] op = "getPlayers" -> <<Want("players", "lock")>>
      [] op = "name" -> <<Want("login_info", "lock")>>
      [] op = "status" -> <<Want("peer_status", "lock")>>
      [] op = "get_world" -> <<Want("world_data", "try"), Want("players", "try")>>
      [] op = "list_bots" -> <<Want("world_data", "try")>>
      [] op = "get_inventory" -> <<Want("item_database", "read")>>

\* the threads parked in item_database.write(): the logon-accept arm has
\* loaded the file and found the lock taken
WritersWaiting ==
    {c \in Threads : /\ view[c].op = None
                     /\ pc[c] = "logon_load"
                     /\ file # <<>> /\ Loadable(file[1])
                     /\ (held["item_database"] # None \/ dbReaders # {})}

\* who keeps a new holder of the given mode out of a lock: its holder; for
\* the item database a writer is kept out by the readers too, and a reader by
\* a writer that waits (the RwLock of std on Linux lets no reader in while a
\* writer is parked)
Keepers(lock, mode) ==
    CASE lock = "callbacks" -> {cbLock} \ {None}
      [] lock = "players" -> {plLock} \ {None}
      [] lock = "item_database" ->
            ({held[lock]} \ {None})
            \cup (IF mode = "read" THEN WritersWaiting ELSE dbReaders)
      [] OTHER -> {held[lock]} \ {None}

\* the state of the locks after caller c has taken lock in the given mode
TakeLock(c, lock, mode) ==
    /\ plLock' = IF lock = "players" THEN c ELSE plLock
    /\ dbReaders' = IF lock = "item_database" /\ mode = "read"
                    THEN dbReaders \cup {c} ELSE dbReaders
    /\ held' = IF lock \in LockNames /\ ~(lock = "item_database" /\ mode = "read")
               THEN [held EXCEPT ![lock] = c] ELSE held

\* every guard of caller c is dropped
DropLocks(c) ==
    /\ plLock' = IF plLock = c THEN None ELSE plLock
    /\ dbReaders' = dbReaders \ {c}
    /\ held' = [l \in LockNames |-> IF held[l] = c THEN None ELSE held[l]]

\* a callback running on thread c, a script on the script thread, or an
\* HTTP handler starts a view
ViewBegin(c, op) ==
    /\ view[c].op = None
    /\ c \in Threads =>
          \/ /\ pc[c] = "inv_loop" /\ cbLock = c
             /\ iframe[c].event \in DOMAIN callbacks
             /\ iframe[c].i <= Len(callbacks[iframe[c].event])
          \/ c = "aux" /\ pc[c] = "idle"
    /\ op \in (IF c \in Threads THEN ScriptViews ELSE WebViews)
    /\ view' = [view EXCEPT ![c] = [op |-> op, k |-> 0]]
    /\ UNCHANGED <<coreVars, sessVars, apiVars, gameVars, pktVars, pureVars, regVars,
                   idVars, dbReaders>>

\* the next lock of the view: lock() and read() wait, try_lock gives up at
\* once and the handler returns its error
ViewAcquire(c) ==
    LET plan == Plan(view[c].op)
        w    == plan[view[c].k + 1]
    IN
    /\ view[c].op # None
    /\ view[c].k < Len(plan)
    /\ IF Keepers(w.lock, w.mode) = {}
       THEN /\ TakeLock(c, w.lock, w.mode)
            /\ view' = [view EXCEPT ![c].k = @ + 1]
       ELSE /\ w.mode = "try"
            /\ DropLocks(c)
            /\ view' = [view EXCEPT ![c] = IdleView]
    /\ UNCHANGED <<callbacks, cbLock, luaReg, nextKey, players, netId, userId,
                   logs, pc, hframe, iframe, sframe, fired>>
    /\ UNCHANGED <<file, itemDb, peerStatus, redirecting, position, auth>>
    /\ UNCHANGED <<apiVars, gameVars, pktVars, pureVars, regVars, idVars>>

\* the view has read what it needs and returns
ViewEnd(c) ==
    /\ view[c].op # None
    /\ view[c].k = Len(Plan(view[c].op))
    /\ DropLocks(c)
    /\ view' = [view EXCEPT ![c] = IdleView]
    /\ UNCHANGED <<callbacks, cbLock, luaReg, nextKey, players, netId, userId,
                   logs, pc, hframe, iframe, sframe, fired>>
    /\ UNCHANGED <<file, itemDb, peerStatus, redirecting, position, auth>>
    /\ UNCHANGED <<apiVars, gameVars, pktVars, pureVars, regVars, idVars>>

\* the lock a caller needs for its next step, None if it needs none
Wants(c) ==
    IF view[c].op # None
    THEN IF view[c].k < Len(Plan(view[c].op))
            /\ Plan(view[c].op)[view[c].k + 1].mode # "try"
         THEN Plan(view[c].op)[view[c].k + 1]
         ELSE Want(None, None)
    ELSE IF c \notin Threads THEN Want(None, None)
    ELSE LET v == hframe[c].variant IN
         CASE pc[c] \in {"tap", "inv_lock"} -> Want("callbacks", "lock")
           [] pc[c] = "match" /\ FunctionCall(v) = "OnSendToServer"
                /\ SendToServerArgsOk(v) -> Want("server_data", "lock")
           [] pc[c] = "match" /\ FunctionCall(v) = "SetHasGrowID"
                /\ ArgOk(v, 2, "String") -> Want("login_info", "lock")
           [] pc[c] = "match" /\ FunctionCall(v) = "OnRemove" /\ RemoveOk(v) ->
                Want("players", "lock")
           [] pc[c] = "sts_login" -> Want("login_info", "lock")
           [] pc[c] = "logon_load" /\ file # <<>> /\ Loadable(file[1]) ->
                Want("item_database", "write")
           [] pc[c] = "logon_db" -> Want("peer_status", "lock")
           [] pc[c] = "insert" -> Want("players", "lock")
           [] pc[c] = "dialog_cb" -> Want("dialog_callback", "lock")
           [] OTHER -> Want(None, None)

\* the callers that keep c from the lock it needs
BlockedBy(c) ==
    IF Wants(c).lock = None THEN {} ELSE Keepers(Wants(c).lock, Wants(c).mode)

\* The callback bus under two threads: the network thread and a second thread
\* both deliver chat events; the second thread also runs the script that
\* subscribes and unsubscribes.
BusEvents == {"onVariant", "onChat"}

BusInputs == { <<VString("OnTalkBubble"), VSigned(1), VString("hi")>> }

NextBus ==
    \/ \E e \in BusEvents, o \in BOOLEAN : CallOn("aux", e, o)
    \/ \E e \in BusEvents : CallRemove("aux", "removeListener", e)
    \/ CallRemove("aux", "removeAllListeners", None)
    \/ MethodRun("aux")
    \/ MethodReturn("aux")
    \/ \E t \in Threads :
        \/ \E v \in BusInputs : Dispatch(t, v)
        \/ TapGate(t)
        \/ ArmTalkBubble(t)
        \/ InvokeLock(t)
        \/ InvokeCall(t)
        \/ InvokeCallSubscribes(t)
        \/ InvokeFinish(t)
        \/ Return(t)

SpecBus == Init /\ [][NextBus]_vars

\* One fan-out over a list that scripts have filled: up to MaxSubs
\* subscribers of the chat event, persistent and once in every interleaving,
\* and at most one subscriber of the tap; the network thread delivers chat
\* events.
MaxSubs == 3

OnceFlags == UNION {[1..n -> BOOLEAN] : n \in 1..MaxSubs}

\* bot:on / bot:once called for each flag in turn, with keys from first on
RECURSIVE SubscribeAll(_, _, _, _)
SubscribeAll(cbs, event, flags, first) ==
    IF flags = <<>> THEN cbs
    ELSE SubscribeAll(EntryPush(cbs, event, LuaCallback(first, Head(flags))),
                      event, Tail(flags), first + 1)

RECURSIVE TrackAll(_, _, _, _)
TrackAll(fd, event, flags, first) ==
    IF flags = <<>> THEN fd
    ELSE TrackAll(Track(fd, first, event, Head(flags)), event, Tail(flags), first + 1)

InitSubscribed ==
    \E flags \in OnceFlags, tap \in {<<>>, <<TRUE>>, <<FALSE>>} :
        /\ callbacks = SubscribeAll(SubscribeAll(EmptyMap, "onChat", flags, 1),
                                    "onVariant", tap, Len(flags) + 1)
        /\ luaReg = 1..(Len(flags) + Len(tap))
        /\ nextKey = Len(flags) + Len(tap)
        /\ fired = TrackAll(TrackAll(EmptyMap, "onChat", flags, 1),
                            "onVariant", tap, Len(flags) + 1)

InitInvoke ==
    /\ InitSubscribed
    /\ InitRest
    /\ fnArg = <<>>
    /\ fnRes = <<>>

NextInvoke ==
    \/ \E v \in BusInputs : Dispatch("net", v)
    \/ TapGate("net")
    \/ ArmTalkBubble("net")
    \/ InvokeLock("net")
    \/ InvokeCall("net")
    \/ InvokeFinish("net")
    \/ Return("net")

SpecInvoke == InitInvoke /\ [][NextInvoke]_vars

\* Every arm of handle: the network thread takes one event of each kind, well
\* formed or not, while a script subscribes to the tap and the rest of the bot
\* moves the phase and writes the cache file.
HandleInputs ==
    {<<VString(LogonName), VUnsigned(h)>> : h \in {hash(<<1>>), hash(<<1>>) + 1}}
    \cup {<<VString("OnSetPos"), VVec2(1, 2)>>,
          <<VString("OnSendToServer"), VSigned(1), VSigned(7), VSigned(3),
            VString(<<"host", "door", "uuid">>), VSigned(9)>>,
          <<VString("OnSendToServer"), VSigned(1), VSigned(7), VSigned(3),
            VString(<<"host">>), VSigned(9)>>,
          <<VString("OnTalkBubble"), VSigned(1), VString("hi")>>,
          <<VString("OnConsoleMessage"), VString("hi")>>,
          <<VString("OnConsoleMessage")>>,
          <<VString("OnSetBux"), VSigned(2)>>,
          <<VString("SetHasGrowID"), VSigned(1), VString("name")>>,
          <<VString("SetHasGrowID"), VSigned(1)>>,
          <<VString("OnRemove"), VString(<< <<"netID", "1">> >>)>>,
          <<VString("OnDialogRequest"), VString(<<"add_label", "Gazette">>)>>,
          <<VString("OnSomethingElse"), VSigned(1)>>}
    \cup {<<VString("OnSpawn"), VString(b)>> :
            b \in SelfSpawnBlocks \cup ShortSelfSpawnBlocks
                  \cup {CommonLines \o << <<"netID", "1">>, <<"name", "a">>,
                                           <<"mstate", "0">> >>}}

NextHandle ==
    \/ CallOn("net", "onVariant", FALSE)
    \/ MethodRun("net")
    \/ MethodReturn("net")
    \/ FileWrite(<< <<1>> >>)
    \/ \E p \in Phases : PhaseSet(p)
    \/ \E v \in HandleInputs :
          /\ FunctionCall(v) = "OnSetBux" => Len(deltas) < MaxDeltas
          /\ Dispatch("net", v)
    \/ TapGate("net")
    \/ ArmLogon("net")
    \/ LogonFlag("net")
    \/ LogonLoad("net")
    \/ LogonPeerLock("net")
    \/ LogonPeerSet("net")
    \/ ArmSetPos("net")
    \/ ArmSendToServer("net")
    \/ SendToServerLoginLock("net")
    \/ SendToServerWrite("net")
    \/ SendToServerDisconnect("net")
    \/ ArmTalkBubble("net")
    \/ ArmConsole("net")
    \/ ArmSetBux("net")
    \/ ArmSetHasGrowID("net")
    \/ ArmRemove("net")
    \/ RemoveDrop("net")
    \/ ArmSpawnSelf("net")
    \/ ArmSpawnOther("net")
    \/ SpawnInsert("net")
    \/ ArmDialog("net")
    \/ DialogRead("net")
    \/ DialogNative("net")
    \/ DialogAck("net")
    \/ ArmOther("net")
    \/ InvokeLock("net")
    \/ InvokeCall("net")
    \/ InvokeFinish("net")
    \/ Return("net")

SpecHandle == Init /\ [][NextHandle]_vars

\* The session locks under contention: the network thread handles events
\* whose arms take locks and calls a subscriber of the tap, which uses the
\* read views and raises no error; a script on the second thread uses the same views; an HTTP
\* handler makes its reads.  No callback calls a subscription method.
LockInputs ==
    {<<VString(LogonName), VUnsigned(hash(<<1>>))>>,
     <<VString("OnSendToServer"), VSigned(1), VSigned(7), VSigned(3),
       VString(<<"host", "door", "uuid">>), VSigned(9)>>,
     <<VString("OnRemove"), VString(<< <<"netID", "1">> >>)>>}

\* a script has subscribed one callback to the tap
InitLocks ==
    /\ callbacks = SubscribeAll(EmptyMap, "onVariant", <<FALSE>>, 1)
    /\ luaReg = {1}
    /\ nextKey = 1
    /\ fired = EmptyMap
    /\ InitRest
    /\ fnArg = <<>>
    /\ fnRes = <<>>

\* the steps of the network thread once it has taken an event
NetProgress ==
    \/ TapGate("net")
    \/ ArmLogon("net")
    \/ LogonFlag("net")
    \/ LogonLoad("net")
    \/ LogonPeerLock("net")
    \/ LogonPeerSet("net")
    \/ ArmSendToServer("net")
    \/ SendToServerLoginLock("net")
    \/ SendToServerWrite("net")
    \/ SendToServerDisconnect("net")
    \/ ArmRemove("net")
    \/ RemoveDrop("net")
    \/ InvokeLock("net")
    \/ InvokeCall("net") /\ pc'["net"] # "cb_script" /\ logs' = logs
    \/ InvokeFinish("net")
    \/ Return("net")

ViewProgress(c) == ViewAcquire(c) \/ ViewEnd(c)

NextLocks ==
    \/ FileWrite(<< <<1>> >>)
    \/ \E v \in LockInputs : Dispatch("net", v)
    \/ NetProgress
    \/ \E c \in Callers :
          \/ \E op \in ScriptViews \cup WebViews : ViewBegin(c, op)
          \/ ViewProgress(c)

\* a thread that can take its next step again and again does take it: a
\* callback returns, a view returns, a lock that is free again and again is
\* given to the thread that waits for it
SpecLocks ==
    /\ InitLocks
    /\ [][NextLocks]_vars
    /\ SF_vars(NetProgress)
    /\ \A c \in Callers : SF_vars(ViewProgress(c))

\* The player registry: the network thread handles spawn and leave events;
\* between events a script subscribes to the join and leave notifications.
WorldEvents == {"onPlayerJoin", "onPlayerLeave"}

WorldInputs ==
    {<<VString("OnSpawn"), VString(b)>> :
        b \in OtherSpawnBlocks \cup SelfSpawnBlocks \cup ShortSelfSpawnBlocks
              \cup BrokenSpawnBlocks}
    \cup {<<VString("OnRemove"), VString(b)>> : b \in RemoveBlocks}
    \cup { <<VString("OnSomethingElse"), VSigned(1)>> }

NextWorld ==
    \/ \E e \in WorldEvents, o \in BOOLEAN : CallOn("net", e, o)
    \/ MethodRun("net")
    \/ MethodReturn("net")
    \/ \E v \in WorldInputs : Dispatch("net", v)
    \/ TapGate("net")
    \/ ArmRemove("net")
    \/ RemoveDrop("net")
    \/ ArmSpawnSelf("net")
    \/ ArmSpawnOther("net")
    \/ SpawnInsert("net")
    \/ ArmOther("net")
    \/ InvokeLock("net")
    \/ InvokeCall("net")
    \/ InvokeCallSubscribes("net")
    \/ InvokeFinish("net")
    \/ Return("net")

SpecWorld == Init /\ [][NextWorld]_vars

\* The session state: the network thread handles logon-accept, redirect and
\* position events, well formed or not, while the cached item file changes
\* between events and a script subscribes to the tap and to position updates.
SessionEvents == {"onVariant", "onSetPos"}

ServerHashes == {hash(c) : c \in {f \in FileContents : Loadable(f)}}

SessionInputs ==
    {<<VString(LogonName), VUnsigned(h)>> : h \in ServerHashes}
    \cup {<<VString("OnSetPos"), VVec2(1, 2)>>,
          <<VString("OnSendToServer"), VSigned(65537), VSigned(7), VSigned(3),
            VString(<<"host", "door", "uuid">>), VSigned(9)>>,
          <<VString("OnSomethingElse"), VSigned(1)>>}

\* an empty list, a name that is not text, arguments of the wrong type, a
\* data block that is too short
MalformedInputs ==
    {<<>>,
     <<VSigned(1)>>,
     <<VString(LogonName), VSigned(11)>>,
     <<VString("OnSetPos"), VString("x")>>,
     <<VString("OnSendToServer"), VSigned(1), VSigned(7), VSigned(3),
       VString(<<"host">>), VSigned(9)>>}

NextSession ==
    \/ \E e \in SessionEvents, o \in BOOLEAN : CallOn("net", e, o)
    \/ MethodRun("net")
    \/ MethodReturn("net")
    \/ \E f \in {<<>>} \cup {<<c>> : c \in FileContents} : FileWrite(f)
    \/ \E v \in SessionInputs \cup MalformedInputs : Dispatch("net", v)
    \/ TapGate("net")
    \/ ArmLogon("net")
    \/ LogonFlag("net")
    \/ LogonLoad("net")
    \/ LogonPeerLock("net")
    \/ LogonPeerSet("net")
    \/ ArmSetPos("net")
    \/ ArmSendToServer("net")
    \/ SendToServerLoginLock("net")
    \/ SendToServerWrite("net")
    \/ SendToServerDisconnect("net")
    \/ ArmOther("net")
    \/ InvokeLock("net")
    \/ InvokeCall("net")
    \/ InvokeCallSubscribes("net")
    \/ InvokeFinish("net")
    \/ Return("net")

SpecSession == Init /\ [][NextSession]_vars

\* The HTTP front end and the other readers: observers make non-blocking
\* reads while a script and the network thread take the world data, and action
\* requests are handed to threads of their own.
NextApi ==
    \/ \E t \in Threads : WorldDataLock(t)
    \/ \E t \in Threads : WorldDataUnlock(t)
    \/ \E n \in WorldNames : WorldEnter("net", n)
    \/ \E op \in {"isInWorld", "list_bots", "get_world"} : Observe(op)
    \/ \E k \in Actions, id \in {"bad", "unknown", "known"},
          d \in {"up", "left", "north"} : HttpRequest(k, id, d)
    \/ HttpSpawn
    \/ HttpRespond
    \/ \E i \in 1..MaxWorkers : WorkerStep(i)

SpecApi == Init /\ [][NextApi]_vars

\* The network thread delivers chat events to the subscribers of a script
\* while the HTTP front end serves its status reads.
StatusReads == {"list_bots", "get_world", "get_inventory", "get_logs"}

NextObserve ==
    \/ \E e \in BusEvents, o \in BOOLEAN : CallOn("net", e, o)
    \/ MethodRun("net")
    \/ MethodReturn("net")
    \/ \E v \in BusInputs : Dispatch("net", v)
    \/ TapGate("net")
    \/ ArmTalkBubble("net")
    \/ InvokeLock("net")
    \/ InvokeCall("net")
    \/ InvokeCallSubscribes("net")
    \/ InvokeFinish("net")
    \/ Return("net")
    \/ \E op \in StatusReads : Observe(op)

SpecObserve == Init /\ [][NextObserve]_vars


\* The packet objects of a script: it makes a packet, writes its fields and
\* passes it to sendGamePacket while it goes on writing.
NextPacket ==
    \/ \E ty \in {<<>>, <<1>>} : GamePacketCtor(ty)
    \/ \E f \in PacketFields : PacketSet(f, 1)
    \/ \E kind \in {"userdata", "number"} : FromLuaPacket(kind)
    \/ SendGamePacket
    \/ ConversionError

SpecPacket == Init /\ [][NextPacket]_vars

\* The network thread handles currency updates and dialog requests; a script
\* subscribes to the tap and to the dialog notification, and code outside
\* handle fills and clears the native dialog slot.
GameEvents == {"onVariant", "onDialogRequest"}

DialogTexts == { <<"add_label", "The", "Growtopia", "Gazette", "end_dialog">>,
                 <<"add_label", "Drop", "end_dialog">> }

DialogHandlers == {"drop_dialog", "once_dialog", "chain_dialog"}

BuxInputs == {<<VString("OnSetBux"), VSigned(d)>> : d \in {-1, 2}}

GameInputs ==
    BuxInputs
    \cup {<<VString("OnDialogRequest"), VString(m)>> : m \in DialogTexts}
    \cup {<<VString("OnSetBux")>>, <<VString("OnDialogRequest"), VSigned(1)>>}

NextGame ==
    \/ \E e \in GameEvents, o \in BOOLEAN : CallOn("net", e, o)
    \/ MethodRun("net")
    \/ MethodReturn("net")
    \/ \E cb \in {<<>>} \cup {<<h>> : h \in DialogHandlers} : DialogSlotSet(cb)
    \/ \E v \in GameInputs :
          /\ v \in BuxInputs => Len(deltas) < MaxDeltas
          /\ Dispatch("net", v)
    \/ TapGate("net")
    \/ ArmSetBux("net")
    \/ ArmDialog("net")
    \/ DialogRead("net")
    \/ DialogNative("net")
    \/ DialogAck("net")
    \/ InvokeLock("net")
    \/ InvokeCall("net")
    \/ InvokeCallSubscribes("net")
    \/ InvokeFinish("net")
    \/ Return("net")

SpecGame == Init /\ [][NextGame]_vars

\* parse_and_store_as_map on every text of up to MaxLen characters
InitParse ==
    /\ InitProgram
    /\ fnArg \in Texts
    /\ fnRes = <<>>

NextParse == ParseApply

SpecParse == InitParse /\ [][NextParse]_vars

\* variant_list_to_lua_table on every list of up to MaxArgs elements; the
\* loop is run by one thread, which goes on until it returns
InitConvert ==
    /\ InitProgram
    /\ fnArg \in VariantLists
    /\ fnRes = <<>>

NextConvert ==
    \/ ConvertBegin
    \/ ConvertStep
    \/ ConvertEnd

SpecConvert == InitConvert /\ [][NextConvert]_vars /\ WF_vars(NextConvert)




\* ------------------------------------------------------- properties ----
InInvoke(t) == pc[t] \in {"inv_loop", "cb_script"}

CalledKeys(t) == {iframe[t].called[j].key : j \in 1..Len(iframe[t].called)}

\* C1: once invoke_callbacks has returned, no once-callback that was in the
\* event's list when the call took the registry is still registered, whether
\* it returned or raised an error.
C1_OnceAbsentAfterInvoke ==
    \A t \in Threads :
        iframe[t].returned =>
            \A j \in 1..Len(iframe[t].snap) :
                iframe[t].snap[j].once =>
                    iframe[t].snap[j].key \notin AllKeys(callbacks)

\* an invoke over a mixed list has returned and a once-callback of it raised
C1_Witness ==
    \E t \in Threads :
        /\ iframe[t].returned
        /\ Len(iframe[t].snap) >= 2
        /\ \E j, k \in 1..Len(iframe[t].snap) :
              /\ iframe[t].snap[j].once
              /\ iframe[t].called[j].res = "err"
              /\ ~iframe[t].snap[k].once

\* C2: a callback that calls on / once / removeListener / removeAllListeners
\* of its own bot does not stop invoke_callbacks: the thread is never left
\* waiting for the callbacks mutex that it holds itself.
C2_ReentryCompletes ==
    \A t \in Threads : ~(pc[t] = "cb_script" /\ cbLock = t)

\* C3: invoke_callbacks calls the callbacks of the event's list, and only
\* those, one call each, in registration order, each with the arguments of
\* the invoke.
C3_CallsInRegistrationOrder ==
    \A t \in Threads :
        LET f == iframe[t] IN
        /\ Len(f.called) <= Len(f.snap)
        /\ \A j \in 1..Len(f.called) :
              /\ f.called[j].key = f.snap[j].key
              /\ f.called[j].args = f.args
        /\ \A j, k \in 1..Len(f.called) :
              j < k => f.called[j].key < f.called[k].key
        /\ f.returned => Len(f.called) = Len(f.snap)

\* a chat invoke over a `once` and an `on` callback has returned
C3_Witness ==
    \E t \in Threads :
        /\ iframe[t].returned
        /\ iframe[t].event = "onChat"
        /\ Len(iframe[t].called) = 2
        /\ iframe[t].snap[1].once # iframe[t].snap[2].once

\* C4: a callback's error is logged and consumed: the loop goes on to the
\* callbacks after it, and invoke_callbacks returns to the dispatcher at the
\* place it would have returned to anyway.
C4_ErrorCaughtAndLogged ==
    \A t \in Threads :
        LET f == iframe[t] IN
        \A j \in 1..Len(f.called) :
            f.called[j].res = "err" =>
                /\ \E l \in 1..Len(logs) : logs[l] = f.event
                /\ f.i > j
                /\ InInvoke(t) \/ f.returned
                /\ f.returned =>
                      /\ Len(f.called) = Len(f.snap)
                      /\ pc[t] \in {f.ret, "done"}

\* a callback raised and the one registered after it was called
C4_Witness ==
    \E t \in Threads :
        /\ iframe[t].returned
        /\ Len(iframe[t].called) >= 2
        /\ iframe[t].called[1].res = "err"
        /\ iframe[t].called[2].res = "ok"

\* C5: the registry never holds an event whose list is empty.
C5_NoEmptyList ==
    \A e \in DOMAIN callbacks : callbacks[e] # <<>>

\* an invoke has emptied a list and the event is gone
C5_Witness ==
    \E t \in Threads :
        /\ iframe[t].returned
        /\ iframe[t].snap # <<>>
        /\ iframe[t].event \notin DOMAIN callbacks

\* C6: has_callbacks(event), read from the registry as an invoke finds it, is
\* false exactly when that invoke makes no call.
C6_HasIffCalls ==
    \A t \in Threads :
        LET f == iframe[t] IN
        /\ f.called # <<>> => f.had
        /\ f.returned => (~f.had <=> f.called = <<>>)

\* an invoke for an event without subscribers has returned while another
\* event has some
C6_Witness ==
    \E t \in Threads :
        /\ iframe[t].returned
        /\ ~iframe[t].had
        /\ iframe[t].called = <<>>
        /\ DOMAIN callbacks # {}

\* C7: removeListener and removeAllListeners return normally; removeListener
\* takes the named event out and leaves every other list as it was, so for an
\* event without subscribers it changes nothing, as removeAllListeners does on
\* an empty registry.
C7_RemoveIsLocal ==
    [][\A t \in Threads :
          (pc[t] = "script" /\ pc'[t] # "script") =>
              /\ pc'[t] = "script_ret"
              /\ sframe[t].op = "removeListener" =>
                    /\ sframe[t].event \notin DOMAIN callbacks'
                    /\ DOMAIN callbacks' = DOMAIN callbacks \ {sframe[t].event}
                    /\ \A e \in DOMAIN callbacks' : callbacks'[e] = callbacks[e]
                    /\ sframe[t].event \notin DOMAIN callbacks => callbacks' = callbacks
              /\ (sframe[t].op = "removeAllListeners" /\ DOMAIN callbacks = {}) =>
                    callbacks' = callbacks
    ]_vars

\* removeListener has run for an event without subscribers while another
\* event has some
C7_Witness ==
    \E t \in Threads :
        /\ pc[t] = "script_ret"
        /\ sframe[t].op = "removeListener"
        /\ ~sframe[t].hit
        /\ DOMAIN callbacks # {}

\* C8: a once-callback is called at most once; after its call it stays in the
\* registry only until the invoke that called it, still holding the registry,
\* removes it; and an invoke that found it and has returned has called it.
C8_OnceFiresOnce ==
    /\ \A k \in DOMAIN fired :
          /\ fired[k].n <= 1
          /\ (fired[k].n = 1 /\ k \in AllKeys(callbacks)) =>
                \E t \in Threads : cbLock = t /\ InInvoke(t) /\ k \in CalledKeys(t)
    /\ \A t \in Threads :
          iframe[t].returned =>
              \A j \in 1..Len(iframe[t].snap) :
                  iframe[t].snap[j].once => fired[iframe[t].snap[j].key].n = 1

\* a chat invoke has returned in one thread without finding the once-callback
\* that an earlier chat invoke of the other thread had called
C8_Witness ==
    \E t \in Threads :
        /\ iframe[t].returned
        /\ iframe[t].event = "onChat"
        /\ iframe[t].called # <<>>
        /\ \E k \in DOMAIN fired :
              /\ fired[k].event = "onChat"
              /\ fired[k].n = 1
              /\ fired[k].by \notin {t, None}
              /\ k \notin KeysOf(iframe[t].snap)

\* the event a thread is handling is an OnSpawn / OnRemove with a text block
Handling(t, name) ==
    /\ Len(hframe[t].variant) >= 2
    /\ FunctionCall(hframe[t].variant) = name
    /\ ArgOk(hframe[t].variant, 1, "String")

IsSelfSpawn(t) ==
    Handling(t, "OnSpawn") /\ "type" \in DOMAIN SpawnData(hframe[t].variant)

\* C9: no step of the handling of a spawn event with a "type" key changes the
\* player registry; the insert that ends the handling of any other spawn event
\* puts the event's player under its net id, replacing what was there and
\* leaving every other entry as it was; every record sits under its own net id.
C9_SpawnRegistry ==
    [][\A t \in Threads :
          /\ IsSelfSpawn(t) => players' = players
          /\ (pc[t] = "insert" /\ pc'[t] = "done") =>
                LET p == PlayerOf(SpawnData(hframe[t].variant)) IN
                /\ DOMAIN players' = DOMAIN players \cup {p.net_id}
                /\ players'[p.net_id] = p
                /\ \A o \in DOMAIN players \ {p.net_id} : players'[o] = players[o]
          /\ \A id \in DOMAIN players' : players'[id].net_id = id
    ]_vars

\* a spawn has replaced a different record of the same net id, after the
\* bot's own spawn had been handled
C9_Witness ==
    \E t \in Threads :
        /\ pc[t] = "done"
        /\ Handling(t, "OnSpawn")
        /\ hframe[t].old # <<>>
        /\ hframe[t].old[1] # players[hframe[t].player[1].net_id]
        /\ players[hframe[t].player[1].net_id] = hframe[t].player[1]
        /\ netId = 1

\* C10: the removal of an OnRemove event for net id X leaves X out of the
\* player registry and every other entry as it was (nothing changes when X was
\* not there); the onPlayerLeave fan-out that follows runs with the players
\* mutex released and X absent, and passes X; the handling makes exactly that
\* one fan-out.
C10_LeaveRegistry ==
    [][\A t \in Threads :
          Handling(t, "OnRemove")' =>
             LET X == RemoveNetId(hframe[t].variant') IN
             /\ (pc[t] = "match" /\ pc'[t] = "remove_drop") =>
                   /\ DOMAIN players' = DOMAIN players \ {X}
                   /\ \A o \in DOMAIN players' : players'[o] = players[o]
                   /\ X \notin DOMAIN players => players' = players
             /\ pc'[t] \in {"inv_lock", "inv_loop", "cb_script", "done"} =>
                   /\ hframe'[t].fanouts = <<[event |-> "onPlayerLeave", args |-> <<X>>]>>
                   /\ iframe'[t].event = "onPlayerLeave"
                   /\ \A j \in 1..Len(iframe'[t].called) :
                         iframe'[t].called[j].args = <<X>>
                   /\ plLock' # t
                   /\ X \notin DOMAIN players'
             /\ pc'[t] \in {"tap", "match", "remove_drop"} => hframe'[t].fanouts = <<>>
    ]_vars

\* a leave event for a net id that was not in the registry has been handled
\* and its subscriber was called with that id, another player being present
C10_Witness ==
    \E t \in Threads :
        /\ pc[t] = "done"
        /\ Handling(t, "OnRemove")
        /\ hframe[t].old = <<>>
        /\ iframe[t].returned
        /\ iframe[t].called # <<>>
        /\ iframe[t].called[1].args = <<RemoveNetId(hframe[t].variant)>>
        /\ DOMAIN players # {}

\* the event a thread is handling is a logon-accept with a server checksum
HandlingLogon(t) ==
    /\ Len(hframe[t].variant) >= 2
    /\ FunctionCall(hframe[t].variant) = LogonName
    /\ ArgOk(hframe[t].variant, 1, "Unsigned")

ServerHash(t) == Get(hframe[t].variant, 1).val

\* C11: when the handling of a logon-accept event ends, either the cached
\* file is there and its checksum is the server's, the phase is InGame, the
\* item database is the one loaded from that file and an enter-game action was
\* sent; or the checksums differ or the file is absent, and then the handling
\* left the phase and the item database as they were and sent exactly an
\* item-data refresh request.
C11_LogonGate ==
    [][\A t \in Threads :
          (HandlingLogon(t) /\ pc[t] # "done" /\ pc'[t] = "done") =>
              IF file # <<>> /\ hash(file[1]) = ServerHash(t)
              THEN /\ peerStatus' = "InGame"
                   /\ itemDb' = ItemDatabase(file[1])
                   /\ hframe'[t].out = <<EnterGame>>
              ELSE /\ pc[t] = "match"
                   /\ peerStatus' = peerStatus
                   /\ itemDb' = itemDb
                   /\ hframe'[t].out = <<RefreshItemData>>
    ]_vars

\* a logon-accept whose checksum differs from the cached file's has been
\* handled after an earlier one had matched another file
C11_Witness ==
    \E t \in Threads :
        /\ pc[t] = "done"
        /\ HandlingLogon(t)
        /\ file # <<>>
        /\ hash(file[1]) # ServerHash(t)
        /\ hframe[t].out = <<RefreshItemData>>
        /\ peerStatus = "InGame"
        /\ itemDb \notin {ItemDatabase(<<>>), ItemDatabase(file[1])}

\* C12: the item database is written, and its write lock taken, only by the
\* step of a logon-accept handling that has just found the cached file's
\* checksum equal to the server's; no other step of any event does either.
C12_SwapOnlyAfterMatch ==
    [][(itemDb' # itemDb \/ held'["item_database"] # held["item_database"]) =>
          \E t \in Threads :
              /\ HandlingLogon(t)
              /\ \/ /\ pc[t] = "logon_load"
                    /\ pc'[t] = "logon_db"
                    /\ file # <<>>
                    /\ hash(file[1]) = ServerHash(t)
                    /\ held'["item_database"] = t
                 \/ /\ pc[t] = "logon_peer"
                    /\ held["item_database"] = t
                    /\ held'["item_database"] = None
                    /\ itemDb' = itemDb
    ]_vars

\* a second logon-accept has replaced the item database that an earlier one
\* had loaded
C12_Witness ==
    \E t \in Threads :
        /\ pc[t] = "logon_db"
        /\ held["item_database"] = t
        /\ peerStatus = "InGame"
        /\ itemDb = ItemDatabase(file[1])
        /\ hframe[t].cmp = "match"

\* C13: while a spawn event without a "type" key is handled, the player
\* registry stays as the event found it until the insert; the insert is made
\* after the onPlayerJoin fan-out has returned with every subscriber called,
\* and what each of them read from the registry during its call is the
\* registry as it is just before the insert.
C13_JoinBeforeInsert ==
    [][\A t \in Threads :
          (Handling(t, "OnSpawn") /\ ~IsSelfSpawn(t)) =>
              /\ (pc[t] \in {"tap", "match", "inv_lock", "inv_loop", "cb_script"}
                     /\ pc'[t] # "done") => players' = players
              /\ players' # players =>
                    /\ pc[t] = "insert"
                    /\ iframe[t].event = "onPlayerJoin"
                    /\ iframe[t].returned
                    /\ Len(iframe[t].called) = Len(iframe[t].snap)
                    /\ \A j \in 1..Len(iframe[t].called) :
                          iframe[t].called[j].seen.players = getPlayers(players)
    ]_vars

\* a spawn has replaced a player's record, and the subscriber called for it
\* had read the record it replaced
C13_Witness ==
    \E t \in Threads :
        /\ pc[t] = "done"
        /\ Handling(t, "OnSpawn")
        /\ hframe[t].old # <<>>
        /\ hframe[t].old[1] # hframe[t].player[1]
        /\ iframe[t].called # <<>>
        /\ LuaPlayer(hframe[t].old[1]) \in iframe[t].called[1].seen.players
        /\ LuaPlayer(hframe[t].player[1]) \notin iframe[t].called[1].seen.players

\* the event a thread is handling is a position update with a 2D vector
HandlingSetPos(t) ==
    /\ Len(hframe[t].variant) >= 2
    /\ FunctionCall(hframe[t].variant) = "OnSetPos"
    /\ ArgOk(hframe[t].variant, 1, "Vec2")

\* C14: from the onSetPos fan-out of a position update (x, y) on, the session
\* position is (x, y); the fan-out passes exactly x and y to every onSetPos
\* subscriber, and a subscriber that reads bot.pos during its call gets
\* (x, y).
C14_SetPos ==
    \A t \in Threads :
        (/\ HandlingSetPos(t)
         /\ \/ pc[t] = "done"
            \/ pc[t] \in {"inv_lock", "inv_loop", "cb_script"} /\ iframe[t].ret = "done") =>
            LET x == Get(hframe[t].variant, 1).val[1]
                y == Get(hframe[t].variant, 1).val[2]
                f == iframe[t]
            IN
            /\ position = <<x, y>>
            /\ f.event = "onSetPos"
            /\ f.args = <<x, y>>
            /\ \A j \in 1..Len(f.called) :
                  /\ f.called[j].args = <<x, y>>
                  /\ f.called[j].seen.pos = [x |-> x, y |-> y]
            /\ f.returned => Len(f.called) = Len(f.snap)

\* a position update has been handled and its two subscribers were called
C14_Witness ==
    \E t \in Threads :
        /\ pc[t] = "done"
        /\ HandlingSetPos(t)
        /\ iframe[t].returned
        /\ Len(iframe[t].called) = 2
        /\ position = <<1, 2>>

\* the thread is in the onVariant tap of the event it handles
TapPhase(t) ==
    \/ pc[t] = "tap"
    \/ pc[t] \in {"inv_lock", "inv_loop", "cb_script"} /\ iframe[t].ret = "match"

\* C15: for every event, with or without an arm of its own, the tap comes
\* first: no step of it changes the session state, sends anything or makes a
\* fan-out other than onVariant; with an onVariant subscriber the fan-out gets
\* the table of all the event's elements and has called every subscriber with
\* it when the match on the name begins; without one the handler goes to the
\* match at once, having converted nothing and called nothing.
C15_TapFirst ==
    [][\A t \in Threads :
          LET v == hframe[t].variant IN
          /\ TapPhase(t) =>
                /\ UNCHANGED <<players, plLock, netId, userId, itemDb, peerStatus,
                               redirecting, position, auth, held, file>>
                /\ hframe'[t].out = <<>>
                /\ \A j \in 1..Len(hframe'[t].fanouts) :
                      hframe'[t].fanouts[j].event = "onVariant"
          /\ (pc[t] = "tap" /\ has_callbacks(callbacks, "onVariant")) =>
                /\ pc'[t] = "inv_lock"
                /\ iframe'[t].event = "onVariant"
                /\ DOMAIN iframe'[t].args = 1..Len(v)
                /\ \A i \in 1..Len(v) : iframe'[t].args[i] = ToLua(v[i])
          /\ (pc[t] = "tap" /\ ~has_callbacks(callbacks, "onVariant")) =>
                /\ pc'[t] = "match"
                /\ hframe'[t] = hframe[t]
                /\ iframe'[t] = iframe[t]
          /\ (TapPhase(t) /\ pc[t] # "tap" /\ pc'[t] = "match") =>
                /\ hframe'[t] = hframe[t]
                /\ Len(iframe'[t].called) = Len(iframe'[t].snap)
                /\ iframe'[t].called # <<>>
                /\ \A j \in 1..Len(iframe'[t].called) :
                      iframe'[t].called[j].args = iframe'[t].args
    ]_vars

\* an event without an arm of its own has been handled and the onVariant
\* subscriber was called with its two elements
C15_Witness ==
    \E t \in Threads :
        /\ pc[t] = "done"
        /\ FunctionCall(hframe[t].variant) \notin HandledNames
        /\ iframe[t].event = "onVariant"
        /\ iframe[t].called # <<>>
        /\ DOMAIN iframe[t].called[1].args = {1, 2}
        /\ Len(hframe[t].fanouts) = 1

\* C16: a malformed event is dropped and the dispatcher goes on: no thread
\* ends in a panic while it handles an event.
C16_MalformedDropped ==
    \A t \in Threads : pc[t] # "panicked"

\* the session locks a thread holds
LocksOf(t) ==
    {l \in LockNames : held[l] = t}
    \cup (IF cbLock = t THEN {"callbacks"} ELSE {})
    \cup (IF plLock = t THEN {"players"} ELSE {})

\* C17: while it handles an event, the dispatcher never holds two of the
\* session locks at once.
C17_OneLockAtATime ==
    \A t \in Threads : Cardinality(LocksOf(t)) <= 1

\* C18: a non-blocking read that finds a lock it needs held returns
\* something that no read with its locks free returns.
C18_UnavailableIsDistinct ==
    obs.busy => obs.res \notin ValidResults(obs.op)

\* C19: a thread is inside the loop of invoke_callbacks or inside a callback
\* only while it holds the callbacks mutex; while it does, no other thread is
\* there too, no other thread's on, once, removeListener, removeAllListeners,
\* has_callbacks or invoke_callbacks gets to the table, and the table changes
\* only when that invoke removes its once-callbacks as it returns.
C19_BusSerialized ==
    [][\A t \in Threads :
          /\ InInvoke(t)' => cbLock' = t
          /\ cbLock = t =>
                /\ \A u \in Threads \ {t} :
                      /\ ~InInvoke(u)
                      /\ pc[u] \in {"script", "cb_script", "tap", "inv_lock"} =>
                            pc'[u] = pc[u]
                /\ callbacks' # callbacks =>
                      /\ pc[t] = "inv_loop"
                      /\ iframe'[t].returned
                      /\ cbLock' = None
    ]_vars

\* one thread is between two callbacks of an invoke while the other waits in
\* removeListener for the mutex
C19_Witness ==
    \E t \in Threads, u \in Threads :
        /\ t # u
        /\ cbLock = t
        /\ pc[t] = "inv_loop"
        /\ iframe[t].called # <<>>
        /\ iframe[t].i <= Len(iframe[t].snap)
        /\ pc[u] = "script"
        /\ sframe[u].op = "removeListener"
        /\ sframe[u].event = iframe[t].event

\* the request is for an action on a bot that exists, a move naming one of
\* the four directions
ActionRequest(req) ==
    /\ req.kind \in Actions
    /\ req.id = "known"
    /\ req.kind = "move" => req.dir \in Directions

\* C20: the handler of a warp, move or connect request for an existing bot
\* (a move in one of the four directions) spawns a thread for the action and
\* can return at once, whatever that thread has done so far; the response it
\* returns is a success.
C20_HandoffNoWait ==
    /\ http.pc = "spawned" =>
          /\ ENABLED HttpRespond
          /\ workers # <<>>
          /\ workers[Len(workers)].action = http.req.kind
    /\ (http.pc \in {"spawned", "idle"} /\ ActionRequest(http.req)) =>
          /\ \E i \in 1..Len(workers) : workers[i].action = http.req.kind
          /\ http.pc = "idle" => http.resp = <<Success>>

\* a move request has been answered with a success while the thread spawned
\* for it has not yet done anything
C20_Witness ==
    /\ http.pc = "idle"
    /\ http.req.kind = "move"
    /\ http.resp = <<Success>>
    /\ workers[Len(workers)] = [action |-> "move", stage |-> "started"]

\* registry keys created by an on / once call that has not yet put its
\* callback into the table
KeysInFlight ==
    {sframe[t].key : t \in {u \in Threads : /\ pc[u] \in {"script", "cb_script"}
                                            /\ sframe[u].op \in {"on", "once"}}}

\* C22: the registry keys the interpreter retains are exactly the keys of
\* the callbacks in the table, together with the key of an on / once call that
\* is still on its way into the table: every removal, by removeListener, by
\* removeAllListeners or of a fired once-callback, releases the removed key.
C22_HandlesMatchRegistry ==
    luaReg = AllKeys(callbacks) \cup KeysInFlight

\* an invoke has removed its once-callback and returned while another
\* callback stays registered, and no call is on its way
C22_Witness ==
    \E t \in Threads :
        /\ iframe[t].returned
        /\ iframe[t].to_remove # <<>>
        /\ luaReg # {}
        /\ KeysInFlight = {}
        /\ nextKey = MaxKeys

\* the player a thread is adding from an "OnSpawn" of another player
SpawnedPlayer(t) == hframe[t].player[1]

Flagged(p) == p.m_state = 1 \/ p.invisible

\* C25: from the step that enters the onPlayerJoin fan-out of another
\* player's spawn until the handling ends, the actions sent are exactly one
\* leave-world action when the player's moderator state is 1 or the player is
\* invisible and none otherwise; that holds before any subscriber of the join
\* has been called and before the player is inserted, and when the handling
\* ends the join has been fanned out and the player is in the registry.
C25_LeaveBeforeJoin ==
    \A t \in Threads :
        (pc[t] # "idle" /\ hframe[t].player # <<>>) =>
            LET p == SpawnedPlayer(t) IN
            /\ hframe[t].out = IF Flagged(p) THEN <<"leave">> ELSE <<>>
            /\ hframe[t].fanouts[Len(hframe[t].fanouts)] =
                   [event |-> "onPlayerJoin", args |-> <<LuaPlayer(p)>>]
            /\ pc[t] = "done" => /\ p.net_id \in DOMAIN players
                                 /\ players[p.net_id] = p

\* a flagged player's join is about to be fanned out to a subscriber: the
\* leave has been issued, no subscriber has run, the player is not inserted
C25_Witness ==
    \E t \in Threads :
        /\ pc[t] = "inv_loop"
        /\ hframe[t].player # <<>>
        /\ Flagged(SpawnedPlayer(t))
        /\ hframe[t].out = <<"leave">>
        /\ iframe[t].event = "onPlayerJoin"
        /\ iframe[t].snap # <<>>
        /\ iframe[t].called = <<>>
        /\ SpawnedPlayer(t).net_id \notin DOMAIN players

\* C30: when the handling of a logon-accept event ends it has sent exactly
\* one action, the enter-game action if the checksums matched and the
\* item-data refresh request if they differed or the file was absent; at no
\* point of the handling has it sent more than one.
C30_OneOutbound ==
    \A t \in Threads :
        (pc[t] \notin {"idle", "panicked"} /\ HandlingLogon(t)) =>
            /\ Len(hframe[t].out) <= 1
            /\ pc[t] = "done" =>
                  /\ hframe[t].cmp \in {"match", "differ", "absent"}
                  /\ hframe[t].out =
                        IF hframe[t].cmp = "match" THEN <<EnterGame>>
                        ELSE <<RefreshItemData>>

\* both outcomes: a logon-accept that found no file has asked for the item
\* data after an earlier one had matched and entered the game
C30_Witness ==
    \E t \in Threads :
        /\ pc[t] = "done"
        /\ HandlingLogon(t)
        /\ hframe[t].cmp = "absent"
        /\ hframe[t].out = <<RefreshItemData>>
        /\ peerStatus = "InGame"

\* the pending AuthState a redirect-to-server event describes
RedirectTarget(v) ==
    [server_data |-> <<ServerData(SplitPipe(Get(v, 4).val)[1], AsU16(Get(v, 1).val))>>,
     login_info  |-> <<LoginInfo(ToString(Get(v, 2).val), ToString(Get(v, 3).val),
                                 SplitPipe(Get(v, 4).val)[2], SplitPipe(Get(v, 4).val)[3],
                                 ToString(Get(v, 5).val))>>]

\* C24: the step of a redirect-to-server handling that closes the connection
\* belongs to an event whose data block has its three segments, finds the
\* host, the port, the token, the user id and the door and session
\* identifiers of the event already stored and the redirecting flag already
\* true, and changes neither.
C24_RedirectThenClose ==
    [][\A t \in Threads :
          (Len(hframe'[t].out) = Len(hframe[t].out) + 1
             /\ hframe'[t].out[Len(hframe'[t].out)] = "disconnect") =>
              /\ FunctionCall(hframe[t].variant) = "OnSendToServer"
              /\ Len(SplitPipe(Get(hframe[t].variant, 4).val)) >= 3
              /\ auth = RedirectTarget(hframe[t].variant)
              /\ redirecting
              /\ auth' = auth
              /\ redirecting' = redirecting
    ]_vars

\* a redirect has closed the connection after replacing the whole AuthState
C24_Witness ==
    \E t \in Threads :
        /\ pc[t] = "done"
        /\ hframe[t].out = <<"disconnect">>
        /\ redirecting
        /\ auth = RedirectTarget(hframe[t].variant)
        /\ auth.login_info[1].uuid # ""

\* C21: the LuaGamePacket that FromLua built equals, in each of the 17
\* fields, the userdata as it was when it was read, whatever was written to
\* the userdata since; a step that changes the userdata leaves the duplicate
\* as it was, and the steps that make and drop the duplicate leave the
\* userdata as it was.
C21_CopyOnRead ==
    /\ [](passed > 0 =>
            /\ Cardinality(PacketFields) = 17
            /\ \A f \in PacketFields : pkts[passed][f] = readAt[1][f])
    /\ [][/\ (Userdata \in DOMAIN pkts /\ pkts'[Userdata] # pkts[Userdata]) =>
                /\ passed' = passed
                /\ Duplicate \in DOMAIN pkts => pkts'[Duplicate] = pkts[Duplicate]
          /\ passed' # passed =>
                (Userdata \in DOMAIN pkts => pkts'[Userdata] = pkts[Userdata])
        ]_vars

\* a field of the userdata was written after the read: the duplicate still
\* holds what was read, in a field the script had set before and in the one
\* it set afterwards
C21_Witness ==
    /\ passed = Duplicate
    /\ pkts[Duplicate] # pkts[Userdata]
    /\ pkts[Duplicate] # DefaultPacket
    /\ pkts[Duplicate] = readAt[1]
    /\ pkts[Duplicate]["extended_data_length"] = 1

RECURSIVE Sum(_)
Sum(ds) == IF ds = <<>> THEN 0 ELSE Head(ds) + Sum(Tail(ds))

\* the event a thread is handling is a currency update with a signed delta
HandlingSetBux(t) ==
    /\ pc[t] = "match"
    /\ FunctionCall(hframe[t].variant) = "OnSetBux"
    /\ ArgOk(hframe[t].variant, 1, "Signed")

\* C27: the arm of a currency update with delta d takes the gem counter from
\* g to g + d and leaves the rest of the session state as it was; no other
\* step of the network thread changes the counter; and at all times the
\* counter is its initial value, 0, plus the sum of the deltas handled.
C27_GemsAdd ==
    /\ [](gems = Sum(deltas))
    /\ [][\A t \in Threads :
            /\ (HandlingSetBux(t) /\ pc'[t] # pc[t]) =>
                  /\ gems' = gems + Get(hframe[t].variant, 1).val
                  /\ UNCHANGED <<sessVars, players, netId, userId, worldName,
                                 dialogCb, callbacks>>
            /\ gems' # gems => \E u \in Threads : HandlingSetBux(u)
        ]_vars

\* two currency updates of different sign have been added up
C27_Witness ==
    /\ deltas = <<2, -1>>
    /\ gems = 1
    /\ pc["net"] = "done"

\* the event a thread is handling is a dialog request with its text
HandlingDialog(t) ==
    /\ Len(hframe[t].variant) >= 2
    /\ FunctionCall(hframe[t].variant) = "OnDialogRequest"
    /\ ArgOk(hframe[t].variant, 1, "String")

DialogText(t) == Get(hframe[t].variant, 1).val

\* what the handling of a dialog request sends after the fan-out: the native
\* handler when the slot holds one, then the acknowledgement of a Gazette
NativePart(t) == IF hframe[t].cb # <<>> THEN <<hframe[t].cb[1]>> ELSE <<>>

AckPart(t) ==
    IF \E i \in DOMAIN DialogText(t) : DialogText(t)[i] = "Gazette"
    THEN <<GazetteReply>> ELSE <<>>

\* the fan-out a thread is in, or has just left, is that of the dialog
InDialogFanout(t) ==
    /\ pc[t] \in {"inv_lock", "inv_loop", "cb_script"}
    /\ iframe[t].event = "onDialogRequest"

\* C26: the handling of a dialog request fans the raw text out to the
\* onDialogRequest subscribers before anything else; the step after the
\* fan-out reads the slot, the next one calls the native handler once if the
\* slot held one and calls nothing otherwise; the step after that sends the
\* acknowledgement if the
\* text holds the Gazette signature and sends nothing otherwise, and ends the
\* handling; no handling calls more than one native handler.
C26_DialogOrder ==
    /\ [](\A t \in Threads :
            /\ (InDialogFanout(t) \/ pc[t] \in {"dialog_cb", "dialog_call", "dialog_ack"}) =>
                  /\ HandlingDialog(t)
                  /\ hframe[t].fanouts[Len(hframe[t].fanouts)] =
                        [event |-> "onDialogRequest", args |-> <<DialogText(t)>>]
            /\ (InDialogFanout(t) \/ pc[t] \in {"dialog_cb", "dialog_call"}) =>
                  hframe[t].out = <<>>
            /\ Cardinality({i \in DOMAIN hframe[t].out :
                               hframe[t].out[i] \in DialogHandlers}) <= 1)
    /\ [][\A t \in Threads :
            /\ (pc[t] # "dialog_cb" /\ pc'[t] = "dialog_cb") => InDialogFanout(t)
            /\ (pc[t] = "dialog_cb" /\ pc'[t] # "dialog_cb") =>
                  /\ pc'[t] = "dialog_call"
                  /\ hframe'[t].cb = dialogCb
                  /\ hframe'[t].out = <<>>
            /\ (pc[t] = "dialog_call" /\ pc'[t] # "dialog_call") =>
                  /\ pc'[t] = "dialog_ack"
                  /\ hframe'[t].out = NativePart(t)
            /\ (pc[t] = "dialog_ack" /\ pc'[t] # "dialog_ack") =>
                  /\ pc'[t] = "done"
                  /\ hframe'[t].out = hframe[t].out \o AckPart(t)
            /\ (HandlingDialog(t) /\ hframe'[t].out # hframe[t].out) =>
                  pc[t] \in {"dialog_call", "dialog_ack", "done"}
        ]_vars

\* a Gazette dialog went to a subscriber, then to the native handler, then
\* was acknowledged
C26_Witness ==
    \E t \in Threads :
        /\ pc[t] = "done"
        /\ HandlingDialog(t)
        /\ iframe[t].event = "onDialogRequest"
        /\ iframe[t].called # <<>>
        /\ hframe[t].out = <<"drop_dialog", GazetteReply>>

\* the records of a text by position: <<s, e>> with a line feed, or an end
\* of the text, on each side and none inside
RecordSpans(text) ==
    {sp \in (1..(Len(text) + 1)) \X (0..Len(text)) :
        /\ sp[1] <= sp[2] + 1
        /\ sp[1] = 1 \/ text[sp[1] - 1] = "\n"
        /\ sp[2] = Len(text) \/ text[sp[2] + 1] = "\n"
        /\ \A i \in sp[1]..sp[2] : text[i] # "\n"}

Pipes(text, sp) == {i \in sp[1]..sp[2] : text[i] = "|"}

FirstPipe(text, sp) ==
    CHOOSE i \in Pipes(text, sp) : \A j \in Pipes(text, sp) : i <= j

KeyOf(text, sp) == SubSeq(text, sp[1], FirstPipe(text, sp) - 1)

ValueOf(text, sp) == SubSeq(text, FirstPipe(text, sp) + 1, sp[2])

\* the records with at least two segments
KeyedSpans(text) == {sp \in RecordSpans(text) : Pipes(text, sp) # {}}

\* C28: the mapping parsed from a text has exactly the keys that are the
\* first segment of a record with at least two segments; the value under a
\* key is what follows the first '|' of the last such record with that key,
\* that is its remaining segments joined by '|'; records without a '|' add
\* nothing.
C28_ParserMapping ==
    fnRes # <<>> =>
        LET m == fnRes[1] IN
        /\ DOMAIN m = {KeyOf(fnArg, sp) : sp \in KeyedSpans(fnArg)}
        /\ \A sp \in KeyedSpans(fnArg) :
              (\A other \in KeyedSpans(fnArg) :
                   KeyOf(fnArg, other) = KeyOf(fnArg, sp) => other[1] <= sp[1])
              => m[KeyOf(fnArg, sp)] = ValueOf(fnArg, sp)

\* a key occurs on two lines: the value of the second is kept, with the '|'
\* between its segments
C28_Witness ==
    /\ fnArg = <<"|", "a", "\n", "|", "a", "|">>
    /\ fnRes = << (<<>> :> <<"a", "|">>) >>

\* C29: for a list of N elements get(i) is Some exactly for i < N; the
\* conversion visits the elements 0, 1, .. in turn, never more than N of
\* them, and after i visits the table holds, for each j < i, the value of
\* element j under key j + 1 if the element is of a known kind and no entry
\* under that key otherwise, and no other key; it ends, and when it has
\* ended it has visited exactly N elements and the table is the result of
\* variant_list_to_lua_table.
C29_IndexedConversion ==
    /\ [](fnRes # <<>> =>
            LET r == fnRes[1]
                N == Len(fnArg)
            IN
            /\ \A j \in 0..(MaxArgs + 1) : GetIsSome(fnArg, j) <=> j < N
            /\ r.i <= N
            /\ DOMAIN r.table \subseteq 1..r.i
            /\ \A j \in 0..(r.i - 1) :
                  IF fnArg[j + 1].tag \in {"String", "Float", "Unsigned", "Signed", "Vec2", "Vec3"}
                  THEN /\ j + 1 \in DOMAIN r.table
                       /\ r.table[j + 1] = ToLua(fnArg[j + 1])
                  ELSE j + 1 \notin DOMAIN r.table
            /\ r.done => /\ r.i = N
                         /\ r.table = variant_list_to_lua_table(fnArg))
    /\ <>(fnRes # <<>> /\ fnRes[1].done)

\* a list with an element of an unknown kind in the middle was converted:
\* its key is absent and the keys around it are there
C29_Witness ==
    /\ fnRes # <<>>
    /\ fnRes[1].done
    /\ fnRes[1].i = 3
    /\ fnArg[2] = VOther
    /\ DOMAIN fnRes[1].table = {1, 3}

\* a thread is inside a fan-out: it holds the callbacks mutex
InFanout == \E t \in Threads : cbLock = t /\ pc[t] \in {"inv_loop", "cb_script"}

InMatchPath(t) == HandlingLogon(t) /\ hframe[t].cmp = "match"

\* C32: in the matching path of a logon-accept the redirecting flag is
\* cleared after the enter-game action was sent, the item database is
\* replaced after the flag was cleared, and the phase is set to InGame after
\* the database was replaced: the step that sets the phase finds, and leaves,
\* the flag false and the database the one loaded from the cached file.
C32_MatchPathOrder ==
    [][\A t \in Threads :
          (InMatchPath(t) /\ pc'[t] # pc[t]) =>
              /\ pc[t] = "logon_flag" =>
                    /\ hframe[t].out = <<EnterGame>>
                    /\ redirecting' = FALSE
                    /\ itemDb' = itemDb /\ peerStatus' = peerStatus
              /\ pc[t] = "logon_load" =>
                    /\ hframe[t].out = <<EnterGame>>
                    /\ redirecting = FALSE
                    /\ itemDb' = ItemDatabase(file[1])
                    /\ peerStatus' = peerStatus
              /\ pc[t] = "logon_peer" =>
                    /\ hframe[t].out = <<EnterGame>>
                    /\ redirecting = FALSE /\ redirecting' = FALSE
                    /\ itemDb = ItemDatabase(file[1]) /\ itemDb' = itemDb
                    /\ peerStatus' = "InGame"
    ]_vars

\* a matching logon-accept that followed a redirect has ended: the flag the
\* redirect had set is false, the database is the cached file's, the phase
\* is InGame
C32_Witness ==
    \E t \in Threads :
        /\ pc[t] = "done"
        /\ InMatchPath(t)
        /\ hframe[t].before[1].redirecting
        /\ ~redirecting
        /\ itemDb = ItemDatabase(file[1])
        /\ peerStatus = "InGame"

\* C34: the handling of a dialog request does not write the native handler
\* slot: the read step copies the slot and leaves it as it was, the call step
\* changes it only by what the called handler itself stores, and no other
\* step of the handling changes it, so a handler that leaves the slot alone
\* is found there by the next dialog request; at the call the thread no
\* longer holds the lock of the slot, and the call of a handler that sets or
\* clears the slot can proceed.
C34_SlotKept ==
    /\ [](\A t \in Threads :
            pc[t] = "dialog_call" =>
                /\ held["dialog_callback"] # t
                /\ hframe[t].cb # <<>> => ENABLED DialogNative(t))
    /\ [][\A t \in Threads :
            (HandlingDialog(t) /\ pc'[t] # pc[t]) =>
                /\ pc[t] = "dialog_cb" =>
                      /\ hframe'[t].cb = dialogCb
                      /\ dialogCb' = dialogCb
                /\ (pc[t] = "dialog_call" /\ hframe[t].cb # <<>>) =>
                      dialogCb' = HandlerSlotWrite(hframe[t].cb[1], dialogCb)
                /\ (pc[t] = "dialog_call" /\ hframe[t].cb = <<>>) =>
                      dialogCb' = dialogCb
                /\ pc[t] \notin {"dialog_cb", "dialog_call"} => dialogCb' = dialogCb
        ]_vars

\* a handler that stores another handler in the slot was called and the slot
\* holds what it stored
C34_Witness ==
    \E t \in Threads :
        /\ pc[t] = "dialog_ack"
        /\ HandlingDialog(t)
        /\ hframe[t].cb = <<"chain_dialog">>
        /\ hframe[t].out = <<"chain_dialog">>
        /\ dialogCb = <<"drop_dialog">>

\* the event a thread handles is the bot's own spawn record, well formed
HandlingSelfSpawn(t) ==
    /\ Handling(t, "OnSpawn")
    /\ ArgOk(hframe[t].variant, 1, "String")
    /\ "type" \in DOMAIN SpawnData(hframe[t].variant)
    /\ FieldOk(SpawnData(hframe[t].variant), "netID")
    /\ FieldOk(SpawnData(hframe[t].variant), "userID")

\* C37: the handling of a spawn event that carries a "type" key goes from the
\* match to its end in one step that sets the session's net id and user id
\* to the numbers of the event and starts no fan-out; no step of the handling
\* changes the player registry, whether or not it holds a record under the
\* event's net id.
C37_SelfSpawnFrame ==
    [][\A t \in Threads :
          HandlingSelfSpawn(t) =>
              /\ players' = players
              /\ (pc[t] = "match" /\ pc'[t] # "match") =>
                    /\ pc'[t] = "done"
                    /\ netId' = ParseU32(SpawnData(hframe[t].variant)["netID"])
                    /\ userId' = ParseU32(SpawnData(hframe[t].variant)["userID"])
                    /\ hframe'[t].fanouts = hframe[t].fanouts
                    /\ hframe'[t].out = hframe[t].out
                    /\ \A i \in DOMAIN hframe[t].fanouts :
                          hframe[t].fanouts[i].event # "onPlayerJoin"
      ]_vars

\* the bot's own record arrived while the registry held a player under the
\* same net id; the ids were taken and the player is still there
C37_Witness ==
    \E t \in Threads :
        /\ pc[t] = "done"
        /\ HandlingSelfSpawn(t)
        /\ hframe[t].before[1].netId = 0
        /\ netId = 1
        /\ userId = 3
        /\ netId \in DOMAIN players

\* the subscribers of an event, none if the event has no list
ListOf(cbs, event) == IF event \in DOMAIN cbs THEN cbs[event] ELSE <<>>

Persistent(cb) == ~cb.once

\* C35: while invoke_callbacks holds the registry the event's list is the one
\* it found; the step in which it returns leaves in that list exactly the
\* persistent subscribers it found, in their order, removes the event's key
\* if none is left, and leaves the list of every other event as it was.
C35_InvokeRemovesOnceOnly ==
    /\ [](\A t \in Threads :
            (pc[t] = "inv_loop" /\ cbLock = t) =>
                ListOf(callbacks, iframe[t].event) = iframe[t].snap)
    /\ [][\A t \in Threads :
            (pc[t] = "inv_loop" /\ iframe'[t].returned) =>
                /\ ListOf(callbacks', iframe[t].event) =
                      SelectSeq(iframe[t].snap, Persistent)
                /\ iframe[t].event \in DOMAIN callbacks' <=>
                      \E j \in DOMAIN iframe[t].snap : ~iframe[t].snap[j].once
                /\ \A e \in (DOMAIN callbacks \cup DOMAIN callbacks') \ {iframe[t].event} :
                      /\ e \in DOMAIN callbacks /\ e \in DOMAIN callbacks'
                      /\ callbacks'[e] = callbacks[e]
        ]_vars

\* an invoke over persistent, once, persistent has returned; the two
\* persistent subscribers are left in their order and the tap's list is there
C35_Witness ==
    \E t \in Threads :
        /\ iframe[t].returned
        /\ iframe[t].event = "onChat"
        /\ Len(iframe[t].snap) = 3
        /\ ~iframe[t].snap[1].once /\ iframe[t].snap[2].once /\ ~iframe[t].snap[3].once
        /\ callbacks["onChat"] = <<iframe[t].snap[1], iframe[t].snap[3]>>
        /\ "onVariant" \in DOMAIN callbacks

\* the id a request names, <<>> if its path holds no id
NamedId(h) == parse_str(rq[h].id)

\* the handler of task h returns its response in this step
Responds(h) == rq[h].pc # "idle" /\ rq'[h].pc = "idle"

\* C38: a create that answers with success adds one entry, under an id that
\* was never in the registry, and a create that answers with an error leaves
\* the registry as it was; a remove that answers with success deletes the
\* entry of its id and no other; the handler of a request whose path holds no
\* id, or the id of no entry (never issued, or removed before), answers with
\* the error of its case in one step that changes neither the registry nor
\* any session; an id that left the registry never returns to it.
C38_RegistryOps ==
    /\ [](bots \subseteq 1..issued /\ Len(sessions) = issued)
    /\ [][\A n \in 1..issued : n \notin bots => n \notin bots']_vars
    /\ [][\A h \in Tasks :
            /\ (Responds(h) /\ rq[h].kind = "create_bot") =>
                  IF rq'[h].resp[1].success
                  THEN /\ issued' \notin bots
                       /\ issued' \notin 1..issued
                       /\ bots' = bots \cup {issued'}
                       /\ Cardinality(bots') = Cardinality(bots) + 1
                       /\ rq'[h].resp[1].data = to_string(issued')
                  ELSE /\ bots' = bots
                       /\ issued' = issued
                       /\ sessions' = sessions
            /\ (Responds(h) /\ rq[h].kind = "remove_bot" /\ rq'[h].resp[1].success) =>
                  /\ NamedId(h) # <<>>
                  /\ NamedId(h)[1] \in bots
                  /\ bots' = bots \ {NamedId(h)[1]}
                  /\ sessions' = sessions
            /\ (rq[h].pc = "handler" /\ rq'[h] # rq[h] /\ rq[h].kind \in IdOps
                   /\ NamedId(h) = <<>>) =>
                  /\ rq'[h].pc = "idle"
                  /\ rq'[h].resp = <<Failure("Invalid bot ID")>>
                  /\ bots' = bots
                  /\ sessions' = sessions
            /\ (rq[h].pc = "handler" /\ rq'[h] # rq[h] /\ rq[h].kind \in IdOps
                   /\ NamedId(h) # <<>> /\ NamedId(h)[1] \notin bots) =>
                  /\ rq'[h].pc = "idle"
                  /\ rq'[h].resp = <<Failure("Bot not found")>>
                  /\ bots' = bots
                  /\ sessions' = sessions
        ]_vars

\* a bot was created and removed; a later request for its id was answered
\* "Bot not found", and the other bot is still registered
C38_Witness ==
    \E h \in Tasks :
        /\ rq[h].pc = "idle"
        /\ rq[h].kind = "leave_world"
        /\ rq[h].id = to_string(1)
        /\ rq[h].resp = <<Failure("Bot not found")>>
        /\ issued = 2
        /\ bots = {2}

\* the handling of the event a thread took has failed
Failed(t) == pc[t] = "panicked" /\ hframe[t].before # <<>>

\* C33: when the handling of an event has failed, the host, the port, the
\* redirecting flag, the login fields, the net id and the user id are what
\* they were when the event arrived.
C33_FailedEventLeavesSession ==
    \A t \in Threads : Failed(t) => SessionNow = hframe[t].before[1]

\* C31: a step of the handling of an event changes the phase only if it is
\* the step of a logon-accept with a matching checksum that writes it, and
\* that step sets it to InGame whatever it was, InWorld included; every other
\* step of every handling, that of a mismatching logon-accept too, leaves the
\* phase as it was.
C31_PhaseFrame ==
    [][\A t \in Threads :
          pc'[t] # pc[t] =>
              IF pc[t] = "logon_peer"
              THEN InMatchPath(t) /\ peerStatus' = "InGame"
              ELSE peerStatus' = peerStatus
      ]_vars

\* a matching logon-accept found the bot in a world and left it in the game
C31_Witness ==
    \E t \in Threads :
        /\ pc[t] = "done"
        /\ InMatchPath(t)
        /\ hframe[t].before[1].phase = "InWorld"
        /\ peerStatus = "InGame"

\* a set of callers each of which waits for a lock that one of them holds
WaitCycle(S) == S # {} /\ \A c \in S : BlockedBy(c) \cap S # {}

====
